---- MODULE Spec2Model ----
(***************************************************************************)
(* Model of the resilient cache, the per-market services and the           *)
(* cross-market aggregator of injective-market-pulse.                      *)
(*                                                                         *)
(* Spec        : cacheGetOrSet / cacheInvalidate over the two node-cache   *)
(*               stores, with concurrent callers and a clock.              *)
(* SpecSvc     : getMarketHealth, getOrderbook and getTradeStats for one   *)
(*               market, with the market lookups they make.                *)
(* SpecAgg     : getRankings and getOverview, fanning out over the market  *)
(*               list and joining the settled sub-computations.            *)
(* FairSpecAgg : SpecAgg where every sub-computation settles.              *)
(* SpecFan     : the same fan-outs over market lists long enough to reach  *)
(*               the caps, the sub-computations settling in issue order.   *)
(* SpecSum     : getMarketHealth and getMarketSummary for a listed market. *)
(* SpecCalc    : the arithmetic of computeMetrics, depthImbalance and the  *)
(*               health score on one book and one trade window.            *)
(* SpecOverlap : getRankings and getOverview with a second caller of the   *)
(*               same cache key in flight.                                 *)
(* SpecBook    : processLevels and computeMetrics on one raw order book.   *)
(* SpecTrades  : normalizeTrade and computeTradeStats on one trade window. *)
(* SpecQuery   : parseIntParam on the query value of a handler.            *)
(* SpecRank    : getRankings by spread over processed order books.         *)
(***************************************************************************)
EXTENDS Integers, Sequences, FiniteSets, TLC

VARIABLES
  focus,       \* the cache key the callers of this behaviour use
  cache,       \* primary store: key -> [v, left, fresh]
  staleCache,  \* secondary store: key -> value (no expiry)
  call,        \* in-flight cacheGetOrSet invocations, one record per caller
  sinceStale,  \* seconds since the latest stale-served call (history), or -1
  listed,      \* upstream: whether market m1 is active on chain
  root,        \* the service task of the request being served, or "none"
  task,        \* the async service invocations of the request, by position
  missed,      \* some lookup of this request found no market (history)
  rq,          \* the aggregate request of this behaviour: op, metric, type, limit
  mkts,        \* getAllMarkets(): the normalized markets, spot first
  agg,         \* the aggregate operation in flight
  subs,        \* the per-market sub-computations of the current fan-out
  runs,        \* how many times the aggregate's producer has fanned out
  inp,         \* the figures one order book and one trade window reduce to
  imb,         \* <<depthImbalance() of the two notional depths>>, or <<>>
  ob,          \* <<the OrderbookMetrics computed from the book>>, or <<>>
  health,      \* <<the MarketHealth computed from ob and the trade statistics>>
  raw,         \* what arrives from outside: a raw book, raw trades or a query value
  book,        \* <<the ProcessedOrderbook made of the raw book>>, or <<>>
  stats,       \* <<the TradeStats made of the raw trades>>, or <<>>
  param        \* <<what parseIntParam returned or threw>>, or <<>>

cacheVars == <<focus, call, sinceStale>>
svcVars   == <<listed, root, task, missed>>
aggVars   == <<rq, mkts, agg, subs, runs>>
calcVars  == <<inp, imb, ob, health, raw, book, stats, param>>
ioVars    == <<raw, book, stats, param>>
vars == <<focus, cache, staleCache, call, sinceStale, listed, root, task, missed,
          rq, mkts, agg, subs, runs, inp, imb, ob, health,
          raw, book, stats, param>>

----------------------------------------------------------------------------
(* Bounds *)

NumCalls == 2
NumValues == 2
MaxMarkets == 3
MaxLimit == 3
MaxRuns == 1
MaxFanMarkets == 62

(* Program constants *)

StaleReseedTTL == 15
TTLMarkets == 60
TTLOrderbook == 10
TTLTrades == 10
TTLHealth == 30
TTLAnalytics == 60
RankCap == 30
OverviewTradesCap == 30
OverviewObCap == 15
OverviewHealthCap == 10
LimitMin == 1
LimitDefault == 10
LimitMax == 50

Calls == 1..NumCalls
Values == 1..NumValues
Errors == {"UPSTREAM_ERROR", "MARKET_NOT_FOUND"}

Min(a, b) == IF a <= b THEN a ELSE b
Max(a, b) == IF a >= b THEN a ELSE b

----------------------------------------------------------------------------
(* Keys and their configured TTLs (cacheTTL) *)

CacheKeys == {<<"orderbook", "m1">>, <<"health", "m1">>}

cacheTTL(k) ==
  CASE k[1] = "markets"   -> TTLMarkets
    [] k[1] = "orderbook" -> TTLOrderbook
    [] k[1] = "trades"    -> TTLTrades
    [] k[1] = "health"    -> TTLHealth
    [] k[1] = "summary"   -> TTLHealth
    [] k[1] = "analytics" -> TTLAnalytics

----------------------------------------------------------------------------
(* node-cache: a Map of key -> {v, t}; an entry is dead once t < Date.now(). *)
(* Time is kept relative to the current instant: an entry stores            *)
(* left = t - Date.now() in seconds, and -1 once it is dead.                *)

Has(store, k) == k \in DOMAIN store

Live(store, k) == Has(store, k) /\ store[k].left >= 0

\* cache.get(key) of a live entry (a dead or missing one yields undefined)
CacheGet(store, k) == store[k].v

CacheDel(store, k) == [j \in DOMAIN store \ {k} |-> store[j]]

\* the store after cache.get(key): a dead entry is deleted by the lookup
AfterGet(store, k) ==
  IF Has(store, k) /\ ~Live(store, k) THEN CacheDel(store, k) ELSE store

\* cache.set(key, value, ttl); fresh records whether a successful fetch wrote it
CacheSet(store, k, v, ttl, fresh) ==
  [j \in DOMAIN store \cup {k} |->
     IF j = k THEN [v |-> v, left |-> ttl, fresh |-> fresh] ELSE store[j]]

\* defect: the backup of a key is written once and never updated
StaleSetOnce(store, k, v) ==
  [j \in DOMAIN store \cup {k} |-> IF j = k /\ ~Has(store, k) THEN v ELSE store[j]]

\* staleCache.set(key, value): stdTTL 0, never expires
StaleSet(store, k, v) ==
  [j \in DOMAIN store \cup {k} |-> IF j = k THEN v ELSE store[j]]

\* Math.min(ttl, 15)
StaleTTL(ttl) == Min(ttl, StaleReseedTTL)

\* one second passes for every entry of the store
Aged(store) ==
  [j \in DOMAIN store |-> [store[j] EXCEPT !.left = Max(store[j].left - 1, -1)]]

----------------------------------------------------------------------------
(* cacheGetOrSet results *)

\* variants with a defect, used to test the properties below
HitResultUncached(v) ==
  [kind |-> "value", data |-> v, cached |-> FALSE, stale |-> FALSE]
ErrorResultWrapped(e) == [kind |-> "error", err |-> "UPSTREAM_ERROR"]

HitResult(v)   == [kind |-> "value", data |-> v, cached |-> TRUE,  stale |-> FALSE]
MissResult(v)  == [kind |-> "value", data |-> v, cached |-> FALSE, stale |-> FALSE]
StaleResult(v) == [kind |-> "value", data |-> v, cached |-> TRUE,  stale |-> TRUE]
ErrorResult(e) == [kind |-> "error", err |-> e]
NoResult       == [kind |-> "none"]

IdleCall == [pc |-> "idle", key |-> <<>>, fetches |-> 0, wrote |-> FALSE,
             conc |-> FALSE, res |-> NoResult]

Fetching(k) == {c \in Calls : call[c].pc = "fetching" /\ call[c].key = k}

----------------------------------------------------------------------------
(* cacheGetOrSet(key, ttl, fetcher), split at its one suspension point *)

\* defect: a miss joins a fetch already in flight for the key (single-flight)
CacheGetOrSetStartShared(c, k) ==
  /\ call[c].pc = "idle"
  /\ k = focus
  /\ IF Live(cache, k)
     THEN call' = [call EXCEPT ![c] =
                 [IdleCall EXCEPT !.pc = "done", !.key = k,
                                  !.res = HitResult(CacheGet(cache, k))]]
     ELSE call' = [call EXCEPT ![c] =
                 [IdleCall EXCEPT !.pc = "fetching", !.key = k,
                                  !.fetches = IF Fetching(k) = {} THEN 1 ELSE 0,
                                  !.wrote = (AfterGet(cache, k) # cache)]]
  /\ cache' = AfterGet(cache, k)
  /\ UNCHANGED <<focus, staleCache, sinceStale, svcVars, aggVars, calcVars>>

\* lines 394-400: lookup; a hit returns, a miss invokes the fetcher
CacheGetOrSetStart(c, k) ==
  /\ call[c].pc = "idle"
  /\ k = focus
  /\ IF Live(cache, k)
     THEN call' = [call EXCEPT ![c] =
                 [IdleCall EXCEPT !.pc = "done", !.key = k,
                                  !.res = HitResult(CacheGet(cache, k))]]
     ELSE call' = [d \in Calls |->
                 IF d = c
                 THEN [IdleCall EXCEPT !.pc = "fetching", !.key = k,
                                       !.fetches = 1,
                                       !.wrote = (AfterGet(cache, k) # cache),
                                       !.conc = (Fetching(k) # {})]
                 ELSE IF d \in Fetching(k)
                      THEN [call[d] EXCEPT !.conc = TRUE]
                      ELSE call[d]]
  /\ cache' = AfterGet(cache, k)
  /\ UNCHANGED <<focus, staleCache, sinceStale, svcVars, aggVars, calcVars>>

\* defect: the last-known-good copy is not updated
FetcherResolveNoBackup(c, v) ==
  /\ call[c].pc = "fetching"
  /\ LET k == call[c].key IN
       /\ cache' = CacheSet(cache, k, v, cacheTTL(k), TRUE)
       /\ call' = [call EXCEPT ![c].pc = "done", ![c].wrote = TRUE,
                               ![c].res = MissResult(v)]
  /\ UNCHANGED <<focus, staleCache, sinceStale, svcVars, aggVars, calcVars>>

\* lines 400-403: the fetcher resolved with v
FetcherResolve(c, v) ==
  /\ call[c].pc = "fetching"
  /\ LET k == call[c].key IN
       /\ cache' = CacheSet(cache, k, v, cacheTTL(k), TRUE)
       /\ staleCache' = StaleSet(staleCache, k, v)
       /\ call' = [call EXCEPT ![c].pc = "done", ![c].wrote = TRUE,
                               ![c].res = MissResult(v)]
  /\ UNCHANGED <<focus, sinceStale, svcVars, aggVars, calcVars>>

\* defect: the stale value is returned without re-seeding the primary store
FetcherRejectNoReseed(c, e) ==
  /\ call[c].pc = "fetching"
  /\ LET k == call[c].key IN
       IF Has(staleCache, k)
       THEN /\ call' = [call EXCEPT ![c].pc = "done",
                                    ![c].res = StaleResult(staleCache[k])]
            /\ sinceStale' = 0
            /\ UNCHANGED cache
       ELSE /\ call' = [call EXCEPT ![c].pc = "done",
                                    ![c].res = ErrorResult(e)]
            /\ UNCHANGED <<cache, sinceStale>>
  /\ UNCHANGED <<focus, staleCache, svcVars, aggVars, calcVars>>

\* lines 404-413: the fetcher rejected with e
FetcherReject(c, e) ==
  /\ call[c].pc = "fetching"
  /\ LET k == call[c].key IN
       IF Has(staleCache, k)
       THEN /\ cache' = CacheSet(cache, k, staleCache[k],
                                 StaleTTL(cacheTTL(k)), FALSE)
            /\ call' = [call EXCEPT ![c].pc = "done", ![c].wrote = TRUE,
                                    ![c].res = StaleResult(staleCache[k])]
            /\ sinceStale' = 0
       ELSE /\ call' = [call EXCEPT ![c].pc = "done",
                                    ![c].res = ErrorResult(e)]
            /\ UNCHANGED <<cache, sinceStale>>
  /\ UNCHANGED <<focus, staleCache, svcVars, aggVars, calcVars>>

\* the caller consumes the settled promise
Return(c) ==
  /\ call[c].pc = "done"
  /\ call' = [call EXCEPT ![c] = IdleCall]
  /\ UNCHANGED <<focus, cache, staleCache, sinceStale, svcVars, aggVars, calcVars>>

\* defect: invalidation also drops the last-known-good copy
CacheInvalidateBoth(k) ==
  /\ Has(cache, k)
  /\ cache' = CacheDel(cache, k)
  /\ staleCache' = CacheDel(staleCache, k)
  /\ sinceStale' = -1
  /\ UNCHANGED <<focus, call, svcVars, aggVars, calcVars>>

\* lines 419-421
CacheInvalidate(k) ==
  /\ Has(cache, k)
  /\ cache' = CacheDel(cache, k)
  /\ sinceStale' = -1
  /\ UNCHANGED <<focus, staleCache, call, svcVars, aggVars, calcVars>>

\* node-cache's periodic sweep (checkperiod): every dead entry is deleted
CheckData ==
  /\ \E k \in DOMAIN cache : ~Live(cache, k)
  /\ cache' = [k \in {j \in DOMAIN cache : Live(cache, j)} |-> cache[k]]
  /\ UNCHANGED <<focus, staleCache, call, sinceStale, svcVars, aggVars, calcVars>>

\* one second passes
Tick ==
  /\ cache' = Aged(cache)
  /\ sinceStale' = IF sinceStale = -1 THEN -1
                   ELSE Min(sinceStale + 1, StaleReseedTTL + 1)
  /\ <<cache', sinceStale'>> # <<cache, sinceStale>>
  /\ UNCHANGED <<focus, staleCache, call, svcVars, aggVars, calcVars>>

----------------------------------------------------------------------------

----------------------------------------------------------------------------
(* The cross-market aggregator: getRankings and getOverview.                *)
(* Metric values are fixed-point numbers in units of 1e-7; health scores    *)
(* are integers.                                                            *)

Dec(n) == n * 10000000

Abs(x) == IF x < 0 THEN 0 - x ELSE x

\* toFixedSafe(value, 6) and toFixedSafe(value, 2): parseFloat(value.toFixed(d))
RoundTo(x, q) == (IF x < 0 THEN -1 ELSE 1) * (((Abs(x) + (q \div 2)) \div q) * q)
toFixedSafe6(x) == RoundTo(x, 10)
toFixedSafe2(x) == RoundTo(x, 100000)

\* Math.round(sum / n) for integers sum >= 0, n > 0
RoundDiv(sum, n) == (2 * sum + n) \div (2 * n)

\* a + b in IEEE-754 double arithmetic, for the notional depths of the model:
\* 0.1 + 0.2 is 0.30000000000000004, above the double written 0.3, and that
\* excess is kept as one unit; every other sum of two depths below is exact
FloatAdd(a, b) == a + b + (IF {a, b} = {1000000, 2000000} THEN 1 ELSE 0)

\* what a sub-computation can resolve to: TradeStats, OrderbookMetrics and
\* MarketHealth records (the fields the aggregator reads)
TradeStatsSet ==
  { [totalNotional |-> Dec(5),  volatility |-> 300000],
    [totalNotional |-> Dec(20), volatility |-> 0],
    [totalNotional |-> Dec(40), volatility |-> 12340] }

ObMetricsSet ==
  { [bidDepthNotional |-> Dec(5),  askDepthNotional |-> 0,
     relativeSpreadBps |-> 0],
    [bidDepthNotional |-> Dec(10), askDepthNotional |-> Dec(10),
     relativeSpreadBps |-> Dec(20)],
    [bidDepthNotional |-> Dec(20), askDepthNotional |-> Dec(25),
     relativeSpreadBps |-> Dec(5)],
    [bidDepthNotional |-> 1000000, askDepthNotional |-> 2000000,
     relativeSpreadBps |-> Dec(50)] }

HealthSet == { [healthScore |-> 0], [healthScore |-> 55], [healthScore |-> 100] }

Metrics == {"volume", "liquidity", "health", "spread", "volatility"}
Types == {"all", "spot", "derivative"}

\* which service a ranking fans out to
FanKind(metric) ==
  CASE metric \in {"volume", "volatility"} -> "trades"
    [] metric \in {"liquidity", "spread"}  -> "orderbook"
    [] metric = "health"                   -> "health"

ResultSet(kind) ==
  CASE kind = "trades"    -> TradeStatsSet
    [] kind = "orderbook" -> ObMetricsSet
    [] kind = "health"    -> HealthSet

\* lines 116-119, 131-134, 146: the ranking value of a fulfilled result
MetricValue(metric, r) ==
  CASE metric = "volume"     -> r.totalNotional
    [] metric = "volatility" -> r.volatility
    [] metric = "liquidity"  -> FloatAdd(r.bidDepthNotional, r.askDepthNotional)
    [] metric = "spread"     -> r.relativeSpreadBps
    [] metric = "health"     -> Dec(r.healthScore)

\* defect: the whole list is used
SliceAll(s, n) == s

\* markets.slice(0, n)
Slice(s, n) == SubSeq(s, 1, Min(n, Len(s)))

\* markets.filter((m) => m.type === type)
FilterType(s, type) == SelectSeq(s, LAMBDA m : type = "all" \/ m.type = type)

\* the fulfilled results, in the order the sub-computations were issued
RECURSIVE Fulfilled(_, _)
Fulfilled(ss, i) ==
  IF i > Len(ss) THEN <<>>
  ELSE IF ss[i].st = "fulfilled"
       THEN <<[market |-> ss[i].market, r |-> ss[i].r]>> \o Fulfilled(ss, i + 1)
       ELSE Fulfilled(ss, i + 1)

\* defect: the sort direction ignores the metric
CompareDescending(ascending, a, b) == b.value - a.value

\* the comparator of line 153
Compare(ascending, a, b) ==
  IF ascending THEN a.value - b.value ELSE b.value - a.value

\* defect: entries ordered the same come out latest first
SortedIndexTiesReversed(es, i, ascending) ==
  1 + Cardinality({j \in 1..Len(es) :
                     \/ Compare(ascending, es[j], es[i]) < 0
                     \/ Compare(ascending, es[j], es[i]) = 0 /\ j > i})

\* Array.prototype.sort (stable): where the i-th entry goes, behind every
\* entry ordered before it and every earlier entry ordered the same
SortedIndex(es, i, ascending) ==
  1 + Cardinality({j \in 1..Len(es) :
                     \/ Compare(ascending, es[j], es[i]) < 0
                     \/ Compare(ascending, es[j], es[i]) = 0 /\ j < i})

SortEntries(es, ascending) ==
  [p \in 1..Len(es) |->
     es[CHOOSE i \in 1..Len(es) : SortedIndex(es, i, ascending) = p]]

\* lines 106-162: the ranking computed from the fulfilled results rs
Ranking(metric, limit, rs) ==
  LET entries == [i \in 1..Len(rs) |->
                    [market |-> rs[i].market, value |-> MetricValue(metric, rs[i].r)]]
      sorted  == SortEntries(entries, metric = "spread")
      top     == Slice(sorted, limit)
  IN [i \in 1..Len(top) |->
        [rank     |-> i,
         marketId |-> top[i].market.marketId,
         type     |-> top[i].market.type,
         value    |-> toFixedSafe6(top[i].value),
         metric   |-> metric]]

\* the key the aggregate result is cached under
AggKey ==
  IF rq.op = "overview" THEN <<"analytics", "overview">>
  ELSE <<"analytics", "rankings", rq.metric, rq.type, rq.limit>>

Pending == [pending |-> TRUE]
NoTop == [marketId |-> 0, amount |-> 0]      \* null
IdleAgg == [pc |-> "idle", res |-> NoResult, phase |-> "none", ran |-> FALSE,
            rejected |-> 0, markets |-> <<>>, totalVolume |-> 0,
            topByVolume |-> NoTop, topByLiquidity |-> NoTop]

\* subset.map((m) => f(m.marketId)): every sub-computation is started, in order
FanOut(ms) == [i \in 1..Len(ms) |-> [market |-> ms[i], st |-> "running", r |-> Pending]]

\* defect: Promise.all, which settles as soon as one input has rejected
FirstFailureOrAll(ss) ==
  \/ \A i \in 1..Len(ss) : ss[i].st # "running"
  \/ \E i \in 1..Len(ss) : ss[i].st = "rejected"

\* Promise.allSettled: fulfils once no input promise is pending any more
AllSettled(ss) == \A i \in 1..Len(ss) : ss[i].st # "running"

\* lines 31-42: the loop over tradeResults, from index i on
RECURSIVE VolumeLoop(_, _, _)
VolumeLoop(rs, i, acc) ==
  IF i > Len(rs) THEN acc
  ELSE VolumeLoop(rs, i + 1,
         [total |-> acc.total + rs[i].r.totalNotional,
          top   |-> IF acc.top = NoTop \/ rs[i].r.totalNotional > acc.top.amount
                    THEN [marketId |-> rs[i].market.marketId,
                          amount   |-> toFixedSafe2(rs[i].r.totalNotional)]
                    ELSE acc.top])

\* lines 49-59: the loop over obResults
RECURSIVE LiquidityLoop(_, _, _)
LiquidityLoop(rs, i, top) ==
  IF i > Len(rs) THEN top
  ELSE LET depth == FloatAdd(rs[i].r.bidDepthNotional, rs[i].r.askDepthNotional)
       IN LiquidityLoop(rs, i + 1,
            IF top = NoTop \/ depth > top.amount
            THEN [marketId |-> rs[i].market.marketId, amount |-> toFixedSafe2(depth)]
            ELSE top)

RECURSIVE SumScores(_, _)
SumScores(rs, i) ==
  IF i > Len(rs) THEN 0 ELSE rs[i].r.healthScore + SumScores(rs, i + 1)

\* defect: the mean is truncated instead of rounded
AvgHealthTruncated(rs) ==
  IF Len(rs) > 0 THEN SumScores(rs, 1) \div Len(rs) ELSE 0

\* lines 66-73
AvgHealth(rs) == IF Len(rs) > 0 THEN RoundDiv(SumScores(rs, 1), Len(rs)) ELSE 0

\* lines 75-84
Overview(a, ss) ==
  [totalMarkets            |-> Len(mkts),
   activeSpotMarkets       |-> Len(FilterType(mkts, "spot")),
   activeDerivativeMarkets |-> Len(FilterType(mkts, "derivative")),
   totalVolume24h          |-> toFixedSafe2(a.totalVolume),
   avgHealthScore          |-> AvgHealth(Fulfilled(ss, 1)),
   topMarketByVolume       |-> a.topByVolume,
   topMarketByLiquidity    |-> a.topByLiquidity]

\* getRankings / getOverview called: cacheGetOrSet up to `await getAllMarkets()`
AggStart ==
  /\ agg.pc = "idle"
  /\ IF Live(cache, AggKey)
     THEN /\ agg' = [agg EXCEPT !.pc = "done",
                                !.res = HitResult(CacheGet(cache, AggKey))]
          /\ UNCHANGED cache
     ELSE /\ agg' = [agg EXCEPT !.pc = "markets"]
          /\ cache' = AfterGet(cache, AggKey)
  /\ UNCHANGED <<staleCache, calcVars, rq, mkts, runs, subs, cacheVars, svcVars>>

\* getAllMarkets() resolved: filter, slice, and fan out to every market
MarketsResolve ==
  /\ agg.pc = "markets"
  /\ runs < MaxRuns
  /\ runs' = runs + 1
  /\ LET ms == IF rq.op = "overview" THEN Slice(mkts, OverviewTradesCap)
               ELSE Slice(FilterType(mkts, rq.type), RankCap)
     IN /\ agg' = [agg EXCEPT !.pc = "fan", !.markets = ms, !.ran = TRUE,
                     !.phase = IF rq.op = "overview" THEN "trades"
                               ELSE FanKind(rq.metric)]
        /\ subs' = FanOut(ms)
  /\ UNCHANGED <<cache, staleCache, calcVars, rq, mkts, cacheVars, svcVars>>

\* the producer threw (getAllMarkets() rejected): cacheGetOrSet's catch block
MarketsReject ==
  /\ agg.pc = "markets"
  /\ IF Has(staleCache, AggKey)
     THEN /\ cache' = CacheSet(cache, AggKey, staleCache[AggKey],
                               StaleTTL(cacheTTL(AggKey)), FALSE)
          /\ agg' = [agg EXCEPT !.pc = "done",
                                !.res = StaleResult(staleCache[AggKey])]
     ELSE /\ agg' = [agg EXCEPT !.pc = "done",
                                !.res = ErrorResult("UPSTREAM_ERROR")]
          /\ UNCHANGED cache
  /\ UNCHANGED <<staleCache, calcVars, rq, mkts, runs, subs, cacheVars, svcVars>>

\* the sub-computation for the i-th market fulfilled with r
SubFulfil(i, r) ==
  /\ agg.pc = "fan"
  /\ i \in 1..Len(subs) /\ subs[i].st = "running"
  /\ r \in ResultSet(agg.phase)
  /\ subs' = [subs EXCEPT ![i].st = "fulfilled", ![i].r = r]
  /\ UNCHANGED <<cache, staleCache, calcVars, rq, mkts, runs, agg, cacheVars, svcVars>>

\* the sub-computation for the i-th market rejected
SubReject(i) ==
  /\ agg.pc = "fan"
  /\ i \in 1..Len(subs) /\ subs[i].st = "running"
  /\ subs' = [subs EXCEPT ![i].st = "rejected"]
  /\ UNCHANGED <<cache, staleCache, calcVars, rq, mkts, runs, agg, cacheVars, svcVars>>

\* how many sub-computations of a fan-out failed (kept for the record)
NumRejected(ss) == Cardinality({i \in 1..Len(ss) : ss[i].st = "rejected"})

\* defect: a result computed while sub-computations failed is returned but
\* not stored
AggProducedCompleteOnly(data) ==
  \E d \in {data} :
     /\ IF NumRejected(subs) > 0
        THEN UNCHANGED <<cache, staleCache>>
        ELSE /\ cache' = CacheSet(cache, AggKey, d, cacheTTL(AggKey), TRUE)
             /\ staleCache' = StaleSet(staleCache, AggKey, d)
     /\ agg' = [agg EXCEPT !.pc = "done", !.res = MissResult(d),
                           !.rejected = NumRejected(subs)]
     /\ subs' = <<>>

\* the producer returned data (its settled results go out of scope): cache.set, staleCache.set, { data, cached: false }
AggProduced(data) ==
  \E d \in {data} :
     /\ cache' = CacheSet(cache, AggKey, d, cacheTTL(AggKey), TRUE)
     /\ staleCache' = StaleSet(staleCache, AggKey, d)
     /\ agg' = [agg EXCEPT !.pc = "done", !.res = MissResult(d),
                           !.rejected = NumRejected(subs)]
     /\ subs' = <<>>

\* defect: a rejected sub-computation fails the whole ranking
JoinRankingsFailFast ==
  /\ agg.pc = "fan" /\ rq.op = "rankings"
  /\ AllSettled(subs)
  /\ IF \E i \in 1..Len(subs) : subs[i].st = "rejected"
     THEN /\ agg' = [agg EXCEPT !.pc = "done", !.res = ErrorResult("UPSTREAM_ERROR"),
                                !.rejected = NumRejected(subs)]
          /\ subs' = <<>>
          /\ UNCHANGED <<cache, staleCache>>
     ELSE \E rs \in {Fulfilled(subs, 1)} : AggProduced(Ranking(rq.metric, rq.limit, rs))
  /\ UNCHANGED <<calcVars, rq, mkts, runs, cacheVars, svcVars>>

\* getRankings after its allSettled: collect, sort, slice, rank
JoinRankings ==
  /\ agg.pc = "fan" /\ rq.op = "rankings"
  /\ AllSettled(subs)
  /\ \E rs \in {Fulfilled(subs, 1)} : AggProduced(Ranking(rq.metric, rq.limit, rs))
  /\ UNCHANGED <<calcVars, rq, mkts, runs, cacheVars, svcVars>>

\* getOverview after the trade-stats allSettled: totals, then the order-book fan-out
JoinTrades ==
  /\ agg.pc = "fan" /\ rq.op = "overview" /\ agg.phase = "trades"
  /\ AllSettled(subs)
  /\ LET acc == VolumeLoop(Fulfilled(subs, 1), 1, [total |-> 0, top |-> NoTop])
     IN agg' = [agg EXCEPT !.phase = "orderbook", !.totalVolume = acc.total,
                           !.topByVolume = acc.top]
  /\ subs' = FanOut(Slice(agg.markets, OverviewObCap))
  /\ UNCHANGED <<cache, staleCache, calcVars, rq, mkts, runs, cacheVars, svcVars>>

\* getOverview after the order-book allSettled: top liquidity, then the health fan-out
JoinOrderbook ==
  /\ agg.pc = "fan" /\ rq.op = "overview" /\ agg.phase = "orderbook"
  /\ AllSettled(subs)
  /\ agg' = [agg EXCEPT !.phase = "health",
               !.topByLiquidity = LiquidityLoop(Fulfilled(subs, 1), 1, NoTop)]
  /\ subs' = FanOut(Slice(agg.markets, OverviewHealthCap))
  /\ UNCHANGED <<cache, staleCache, calcVars, rq, mkts, runs, cacheVars, svcVars>>

\* getOverview after the health allSettled: the overview is returned and cached
JoinHealth ==
  /\ agg.pc = "fan" /\ rq.op = "overview" /\ agg.phase = "health"
  /\ AllSettled(subs)
  /\ AggProduced(Overview(agg, subs))
  /\ UNCHANGED <<calcVars, rq, mkts, runs, cacheVars, svcVars>>

\* the response has been sent
AggRespond ==
  /\ agg.pc = "done"
  /\ agg' = IdleAgg
  /\ UNCHANGED <<cache, staleCache, calcVars, rq, mkts, runs, subs, cacheVars, svcVars>>

----------------------------------------------------------------------------
(* The per-market services getOrderbook, getTradeStats and getMarketHealth  *)
(* for market m1 (a spot market).  One request at a time is served; its     *)
(* async invocations are                                                    *)
(*   H  getMarketHealth    HO getOrderbookMetrics    HT getTradeStats       *)
(* and an order-book or trade request runs HO or HT alone.  A summary       *)
(* request runs                                                             *)
(*   S  getMarketSummary   SO getOrderbookMetrics    ST getTradeStats       *)
(*   SH getMarketHealth    SHO, SHT the two calls of SH's producer          *)

Tasks == {"H", "HO", "HT", "S", "SO", "ST", "SH", "SHO", "SHT"}

Children(t) ==
  CASE t = "H"  -> {"HO", "HT"}
    [] t = "S"  -> {"SO", "ST", "SH"}
    [] t = "SH" -> {"SHO", "SHT"}
    [] OTHER    -> {}

Kind(t) ==
  CASE t \in {"H", "SH"}   -> "health"
    [] t \in {"HO", "SO", "SHO"} -> "orderbook"
    [] t \in {"HT", "ST", "SHT"} -> "trades"
    [] t = "S"             -> "summary"

\* `health:m1`, `orderbook:m1:25`, `trades:m1:100`
Key(t) == <<Kind(t), "m1">>

SpotKey  == <<"markets", "spot">>
DerivKey == <<"markets", "derivative">>

RootOf(op) ==
  CASE op = "health"    -> "H"
    [] op = "orderbook" -> "HO"
    [] op = "trades"    -> "HT"
    [] op = "summary"   -> "S"

Ops == {"health", "orderbook", "trades"}

\* pc: idle -> lookup (getMarketById) -> fetch (cacheGetOrSet's fetcher) -> done
\* spot / deriv: getSpotMarkets / getDerivativeMarkets of the task's lookup:
\*   "none", "wait" (fetchMarkets in flight), "yes" / "no" (a list with or
\*   without m1), "err"
IdleTask == [pc |-> "idle", spot |-> "none", deriv |-> "none", res |-> NoResult]

\* getAllMarkets, up to the first suspension: both market-list lookups
LookupStarted(store) ==
  [pc    |-> "lookup",
   spot  |-> IF Live(store, SpotKey)
             THEN (IF CacheGet(store, SpotKey) THEN "yes" ELSE "no")
             ELSE "wait",
   deriv |-> IF Live(store, DerivKey) THEN "no" ELSE "wait",
   res   |-> NoResult]

AfterLookups(store) == AfterGet(AfterGet(store, SpotKey), DerivKey)

\* a client request for one of the operations
Request(op) ==
  /\ root = "none"
  /\ root' = RootOf(op)
  /\ task' = [task EXCEPT ![RootOf(op)] = LookupStarted(cache)]
  /\ cache' = AfterLookups(cache)
  /\ UNCHANGED <<staleCache, listed, missed, cacheVars, aggVars, calcVars>>

\* spotApi.fetchMarkets resolved: the active markets are cached and returned
SpotResolve(t) ==
  /\ task[t].spot = "wait"
  /\ cache' = CacheSet(cache, SpotKey, listed, cacheTTL(SpotKey), TRUE)
  /\ staleCache' = StaleSet(staleCache, SpotKey, listed)
  /\ task' = [task EXCEPT ![t].spot = IF listed THEN "yes" ELSE "no"]
  /\ UNCHANGED <<listed, root, missed, cacheVars, aggVars, calcVars>>

\* spotApi.fetchMarkets failed: the last-known-good list, if any
SpotReject(t) ==
  /\ task[t].spot = "wait"
  /\ IF Has(staleCache, SpotKey)
     THEN /\ cache' = CacheSet(cache, SpotKey, staleCache[SpotKey],
                               StaleTTL(cacheTTL(SpotKey)), FALSE)
          /\ task' = [task EXCEPT ![t].spot =
                        IF staleCache[SpotKey] THEN "yes" ELSE "no"]
     ELSE /\ task' = [task EXCEPT ![t].spot = "err"]
          /\ UNCHANGED cache
  /\ UNCHANGED <<staleCache, listed, root, missed, cacheVars, aggVars, calcVars>>

\* derivativeApi.fetchMarkets resolved (m1 is not a derivative market)
DerivResolve(t) ==
  /\ task[t].deriv = "wait"
  /\ cache' = CacheSet(cache, DerivKey, FALSE, cacheTTL(DerivKey), TRUE)
  /\ staleCache' = StaleSet(staleCache, DerivKey, FALSE)
  /\ task' = [task EXCEPT ![t].deriv = "no"]
  /\ UNCHANGED <<listed, root, missed, cacheVars, aggVars, calcVars>>

DerivReject(t) ==
  /\ task[t].deriv = "wait"
  /\ IF Has(staleCache, DerivKey)
     THEN /\ cache' = CacheSet(cache, DerivKey, staleCache[DerivKey],
                               StaleTTL(cacheTTL(DerivKey)), FALSE)
          /\ task' = [task EXCEPT ![t].deriv = "no"]
     ELSE /\ task' = [task EXCEPT ![t].deriv = "err"]
          /\ UNCHANGED cache
  /\ UNCHANGED <<staleCache, listed, root, missed, cacheVars, aggVars, calcVars>>

\* getAllMarkets rejected (Promise.all): the upstream error leaves the service
LookupFail(t) ==
  /\ task[t].pc = "lookup"
  /\ task[t].spot = "err" \/ task[t].deriv = "err"
  /\ task' = [task EXCEPT ![t].pc = "done",
                          ![t].res = ErrorResult("UPSTREAM_ERROR")]
  /\ UNCHANGED <<cache, staleCache, listed, root, missed, cacheVars, aggVars, calcVars>>

\* getMarketById returned null: throw new MarketNotFoundError
LookupMissing(t) ==
  /\ task[t].pc = "lookup"
  /\ task[t].spot = "no" /\ task[t].deriv = "no"
  /\ task' = [task EXCEPT ![t].pc = "done",
                          ![t].res = ErrorResult("MARKET_NOT_FOUND")]
  /\ missed' = TRUE
  /\ UNCHANGED <<cache, staleCache, listed, root, cacheVars, aggVars, calcVars>>

\* the market was found: cacheGetOrSet(cacheKey, ttl, producer) up to the
\* first suspension; a composite producer starts all its sub-calls
LookupFound(t) ==
  /\ task[t].pc = "lookup"
  /\ task[t].spot = "yes" /\ task[t].deriv = "no"
  /\ IF Live(cache, Key(t))
     THEN /\ task' = [task EXCEPT ![t].pc = "done",
                                  ![t].res = HitResult(CacheGet(cache, Key(t)))]
          /\ UNCHANGED cache
     ELSE /\ task' = [u \in Tasks |->
                 IF u = t THEN [task[t] EXCEPT !.pc = "fetch"]
                 ELSE IF u \in Children(t)
                      THEN LookupStarted(AfterGet(cache, Key(t)))
                      ELSE task[u]]
          /\ cache' = IF Children(t) = {}
                      THEN AfterGet(cache, Key(t))
                      ELSE AfterLookups(AfterGet(cache, Key(t)))
  /\ UNCHANGED <<staleCache, listed, root, missed, cacheVars, aggVars, calcVars>>

\* the fetcher of task t succeeded with a fresh value
ServiceResolved(t) ==
  /\ cache' = CacheSet(cache, Key(t), 1, cacheTTL(Key(t)), TRUE)
  /\ staleCache' = StaleSet(staleCache, Key(t), 1)
  /\ task' = [task EXCEPT ![t].pc = "done", ![t].res = MissResult(1)]

\* the fetcher of task t failed with e: cacheGetOrSet's catch block
ServiceRejected(t, e) ==
  /\ IF Has(staleCache, Key(t))
     THEN /\ cache' = CacheSet(cache, Key(t), staleCache[Key(t)],
                               StaleTTL(cacheTTL(Key(t))), FALSE)
          /\ task' = [task EXCEPT ![t].pc = "done",
                                  ![t].res = StaleResult(staleCache[Key(t)])]
     ELSE /\ task' = [task EXCEPT ![t].pc = "done", ![t].res = ErrorResult(e)]
          /\ UNCHANGED cache
  /\ UNCHANGED staleCache

\* fetchOrderbookV2 / fetchTrades resolved and were processed
UpstreamResolve(t) ==
  /\ task[t].pc = "fetch" /\ Children(t) = {}
  /\ ServiceResolved(t)
  /\ UNCHANGED <<listed, root, missed, cacheVars, aggVars, calcVars>>

\* fetchOrderbookV2 / fetchTrades failed: InjectiveClientError
UpstreamReject(t) ==
  /\ task[t].pc = "fetch" /\ Children(t) = {}
  /\ ServiceRejected(t, "UPSTREAM_ERROR")
  /\ UNCHANGED <<listed, root, missed, cacheVars, aggVars, calcVars>>

\* defect: a producer that was given a stale value passes the staleness on
ProducerResolveStaleAware(t) ==
  /\ task[t].pc = "fetch" /\ Children(t) # {}
  /\ \A u \in Children(t) : task[u].pc = "done" /\ task[u].res.kind = "value"
  /\ IF \E u \in Children(t) : task[u].res.stale
     THEN /\ cache' = CacheSet(cache, Key(t), 1, StaleTTL(cacheTTL(Key(t))), FALSE)
          /\ task' = [task EXCEPT ![t].pc = "done", ![t].res = StaleResult(1)]
          /\ UNCHANGED staleCache
     ELSE ServiceResolved(t)
  /\ UNCHANGED <<listed, root, missed, cacheVars, aggVars, calcVars>>

\* Promise.all of the producer's sub-calls fulfilled
ProducerResolve(t) ==
  /\ task[t].pc = "fetch" /\ Children(t) # {}
  /\ \A u \in Children(t) : task[u].pc = "done" /\ task[u].res.kind = "value"
  /\ ServiceResolved(t)
  /\ UNCHANGED <<listed, root, missed, cacheVars, aggVars, calcVars>>

\* defect: a failed sub-call is replaced by a default and the producer returns
ProducerRejectDefaulted(t, u) ==
  /\ task[t].pc = "fetch" /\ u \in Children(t)
  /\ task[u].pc = "done" /\ task[u].res.kind = "error"
  /\ ServiceResolved(t)
  /\ UNCHANGED <<listed, root, missed, cacheVars, aggVars, calcVars>>

\* Promise.all rejected with the error of a failed sub-call
ProducerReject(t, u) ==
  /\ task[t].pc = "fetch" /\ u \in Children(t)
  /\ task[u].pc = "done" /\ task[u].res.kind = "error"
  /\ ServiceRejected(t, task[u].res.err)
  /\ UNCHANGED <<listed, root, missed, cacheVars, aggVars, calcVars>>

Quiet(t) == task[t].pc \in {"idle", "done"}
              /\ task[t].spot # "wait" /\ task[t].deriv # "wait"

\* the response has been sent and every sub-call has settled
Respond ==
  /\ root # "none"
  /\ task[root].pc = "done"
  /\ \A t \in Tasks : Quiet(t)
  /\ root' = "none"
  /\ task' = [t \in Tasks |-> IdleTask]
  /\ missed' = FALSE
  /\ UNCHANGED <<cache, staleCache, listed, cacheVars, aggVars, calcVars>>

\* the market is delisted (or listed again) on chain
ToggleListing ==
  /\ listed' = ~listed
  /\ UNCHANGED <<cache, staleCache, root, task, missed, cacheVars, aggVars, calcVars>>

\* the lifetime of the live entry k runs out and the entry is swept
Expire(k) ==
  /\ Live(cache, k)
  /\ cache' = CacheDel(cache, k)
  /\ UNCHANGED <<staleCache, listed, root, task, missed, cacheVars, aggVars, calcVars>>

SvcKeys == {SpotKey, DerivKey} \cup {Key(t) : t \in Tasks}

----------------------------------------------------------------------------
(* Order-book metrics and the health score: the arithmetic of computeMetrics
   and of the producer of getMarketHealth.

   Numbers are fixed-point integers in the unit their producer rounds them
   to: notional depth and traded notional in cents (toFixedSafe(_, 2)),
   relativeSpreadBps in hundredths of a basis point (toFixedSafe(_, 2)),
   volatility in millionths (toFixedSafe(_, 6)), the reported depthImbalance
   in ten-thousandths (toFixedSafe(_, 4)). A score is kept in the unit
   1/Point of a score point; Point is a multiple of 195 and of 10000/30, so
   the spread formula and the balance penalty are exact. *)

Point == 195 * 200

\* floor(x * num / den) for x >= 0, without an intermediate product above
\* den * num
Scaled(x, num, den) == (x \div den) * num + ((x % den) * num) \div den

\* Math.round of the quotient n / d (d > 0): the nearest integer, a half
\* going up
MathRound(n, d) == (2 * n + d) \div (2 * d)

clampUpperOnly(value, min, max) == Min(max, value)

clamp(value, min, max) == Max(min, Min(max, value))

scoreToGradeStrict(score) ==
  IF score > 90 THEN "A+"
  ELSE IF score > 80 THEN "A"
  ELSE IF score > 70 THEN "B"
  ELSE IF score > 60 THEN "C"
  ELSE IF score > 50 THEN "D"
  ELSE "F"

scoreToGrade(score) ==
  IF score >= 90 THEN "A+"
  ELSE IF score >= 80 THEN "A"
  ELSE IF score >= 70 THEN "B"
  ELSE IF score >= 60 THEN "C"
  ELSE IF score >= 50 THEN "D"
  ELSE "F"

\* The quotient the function returns is kept as the fraction n / d (d > 0)
depthImbalanceSigned(bidDepth, askDepth) ==
  LET total == bidDepth + askDepth
  IN  IF total = 0 THEN [n |-> 0, d |-> 1]
      ELSE [n |-> bidDepth - askDepth, d |-> total]

depthImbalance(bidDepth, askDepth) ==
  LET total == bidDepth + askDepth
  IN  IF total = 0 THEN [n |-> 0, d |-> 1]
      ELSE [n |-> Abs(bidDepth - askDepth), d |-> total]

\* The first k decimals of r / d (0 <= r < d), as toFixed writes them, and
\* what is left of the division after them
RECURSIVE FracRem(_, _, _)
FracRem(r, d, k) ==
  IF k = 0 THEN r ELSE (10 * FracRem(r, d, k - 1)) % d

RECURSIVE FracDigits(_, _, _)
FracDigits(r, d, k) ==
  IF k = 0 THEN 0
  ELSE 10 * FracDigits(r, d, k - 1) + (10 * FracRem(r, d, k - 1)) \div d

Pow10(k) ==
  IF k = 2 THEN 100 ELSE IF k = 4 THEN 10000
  ELSE IF k = 6 THEN 1000000 ELSE 100000000

\* toFixedSafe(q, decimals) of a quotient q >= 0, in units of 10^-decimals:
\* the decimals are cut after the last one kept, which goes up when the rest
\* is a half or more
toFixedSafeTruncating(q, decimals) ==
  (q.n \div q.d) * Pow10(decimals) + FracDigits(q.n % q.d, q.d, decimals)

toFixedSafe(q, decimals) ==
  (q.n \div q.d) * Pow10(decimals) + FracDigits(q.n % q.d, q.d, decimals)
    + (IF 2 * FracRem(q.n % q.d, q.d, decimals) >= q.d THEN 1 ELSE 0)

\* computeMetrics, from what the two sides of the book sum to and from the
\* spread of the two best prices
computeMetrics(bidDepthNotional, askDepthNotional, spreadBps) ==
  [ bidDepthNotional  |-> bidDepthNotional,
    askDepthNotional  |-> askDepthNotional,
    relativeSpreadBps |-> spreadBps,
    depthImbalance    |->
      toFixedSafe(depthImbalance(bidDepthNotional, askDepthNotional), 4) ]

\* WEIGHTS, in hundredths
WEIGHTS == [liquidity |-> 30, spread |-> 25, volatility |-> 20, activity |-> 25]

\* (totalDepth / 500000) * 100 points is totalDepth[cents] / 500000 points;
\* depthImbalance * 30 points is depthImbalance[1e-4] * 30 * Point / 10000
liquidityScore(obMetrics) ==
  LET totalDepth == obMetrics.bidDepthNotional + obMetrics.askDepthNotional
      depthScore == clamp(Scaled(totalDepth, Point \div 1000, 500), 0, 100 * Point)
      balancePenalty == obMetrics.depthImbalance * ((30 * Point) \div 10000)
  IN  clamp(depthScore - balancePenalty, 0, 100 * Point)

\* ((spreadBps - 5) / 195) * 100 points is (spreadBps[1e-2] - 500) / 195 points
spreadScoreUnguarded(obMetrics) ==
  LET spreadBps == obMetrics.relativeSpreadBps
  IN  clamp(100 * Point - (spreadBps - 500) * (Point \div 195), 0, 100 * Point)

spreadScore(obMetrics) ==
  LET spreadBps == obMetrics.relativeSpreadBps
  IN  IF spreadBps <= 0 THEN 0
      ELSE clamp(100 * Point - (spreadBps - 500) * (Point \div 195), 0, 100 * Point)

\* the step function of the volatility, whose thresholds 0.001, 0.005, 0.03
\* and 0.08 are 1000, 5000, 30000 and 80000 millionths
volatilityBaseInclusive(vol) ==
  IF vol <= 1000 THEN 30
  ELSE IF vol <= 5000 THEN 60
  ELSE IF vol <= 30000 THEN 90
  ELSE IF vol <= 80000 THEN 60
  ELSE 20

volatilityBase(vol) ==
  IF vol < 1000 THEN 30
  ELSE IF vol < 5000 THEN 60
  ELSE IF vol <= 30000 THEN 90
  ELSE IF vol <= 80000 THEN 60
  ELSE 20

volatilityScore(tradeStats) ==
  LET freqBonus == clamp((tradeStats.totalTrades * Point) \div 2, 0, 20 * Point)
  IN  clamp(volatilityBase(tradeStats.volatility) * Point + freqBonus, 0, 100 * Point)

\* (totalTrades / 100) * 80 points; (totalNotional / 100000) * 20 points is
\* totalNotional[cents] / 500000 points
activityScore(tradeStats) ==
  LET tradeCountScore ==
        clamp((tradeStats.totalTrades * 80 * Point) \div 100, 0, 80 * Point)
      volumeScore ==
        clamp(Scaled(tradeStats.totalNotional, Point \div 1000, 500), 0, 20 * Point)
  IN  clamp(tradeCountScore + volumeScore, 0, 100 * Point)

\* The MarketHealth the producer of getMarketHealth builds. sub holds the
\* producer's four local sub-scores before they are rounded for the report.
MarketHealth(obMetrics, tradeStats) ==
  LET sub == [ liquidity  |-> liquidityScore(obMetrics),
               spread     |-> spreadScore(obMetrics),
               volatility |-> volatilityScore(tradeStats),
               activity   |-> activityScore(tradeStats) ]
      healthScore ==
        MathRound(sub.liquidity * WEIGHTS.liquidity + sub.spread * WEIGHTS.spread
                    + sub.volatility * WEIGHTS.volatility
                    + sub.activity * WEIGHTS.activity,
                  100 * Point)
  IN  [ healthScore |-> clamp(healthScore, 0, 100),
        healthGrade |-> scoreToGrade(healthScore),
        metrics     |-> [ liquidity  |-> MathRound(sub.liquidity, Point),
                          spread     |-> MathRound(sub.spread, Point),
                          volatility |-> MathRound(sub.volatility, Point),
                          activity   |-> MathRound(sub.activity, Point) ],
        sub         |-> sub ]

\* Notional depth of the two sides of a book, in cents: empty, balanced,
\* a cent apart, one side next to nothing, one side empty, beyond the
\* 500000 that earns the full depth score
DepthPairs ==
  { <<0, 0>>, <<10000, 10000>>, <<10000, 10001>>, <<10000, 10002>>, <<3000, 1000>>,
    <<1, 40000>>, <<40000, 1>>, <<0, 25000000>>, <<25000000, 0>>,
    <<15000000, 10000000>>, <<100000000, 100000000>> }

\* relativeSpreadBps in hundredths: a crossed book, no spread, the ends of
\* the linear stretch and both sides of them, a spread far beyond it
SpreadSet == {-1000, 0, 1, 500, 501, 10250, 19999, 20000, 1500000}

\* realized volatility in millionths, on and next to every threshold
VolSet == {0, 999, 1000, 4999, 5000, 30000, 30001, 80000, 80001, 2000000}

\* trades in the window of at most 100 that getMarketHealth asks for
TradeCounts == {0, 1, 3, 39, 40, 100}

\* traded notional in cents
NotionalSet == {0, 5000000, 100000000}

\* emptyStats for no trade; realizedVolatility is 0 below three prices
CalcInputs ==
  { [bid |-> dp[1], ask |-> dp[2], spreadBps |-> sp,
     totalTrades |-> n, totalNotional |-> tn, volatility |-> v] :
      dp \in DepthPairs, sp \in SpreadSet,
      n \in TradeCounts, tn \in NotionalSet, v \in VolSet }

PossibleInputs ==
  { i \in CalcInputs :
      /\ i.totalTrades = 0 => i.totalNotional = 0
      /\ i.totalTrades < 3 => i.volatility = 0 }

NoInput == [bid |-> 0, ask |-> 0, spreadBps |-> 0,
            totalTrades |-> 0, totalNotional |-> 0, volatility |-> 0]

NoIO ==
  /\ raw = <<>>
  /\ book = <<>>
  /\ stats = <<>>
  /\ param = <<>>

NoCalc ==
  /\ inp = NoInput
  /\ imb = <<>>
  /\ ob = <<>>
  /\ health = <<>>
  /\ NoIO

\* a call of depthImbalance on the two depths, as the unit tests make it
DepthImbalanceCall ==
  /\ imb = <<>>
  /\ imb' = <<depthImbalance(inp.bid, inp.ask)>>
  /\ UNCHANGED <<inp, ob, health, ioVars, cache, staleCache, cacheVars, svcVars, aggVars>>

\* computeMetrics on the normalized book
ComputeMetrics ==
  /\ ob = <<>>
  /\ ob' = <<computeMetrics(inp.bid, inp.ask, inp.spreadBps)>>
  /\ UNCHANGED <<inp, imb, health, ioVars, cache, staleCache, cacheVars, svcVars, aggVars>>

\* the producer of getMarketHealth, once getOrderbookMetrics and
\* getTradeStats have both resolved
ComputeHealth ==
  /\ ob # <<>>
  /\ health = <<>>
  /\ health' = <<MarketHealth(ob[1], [totalTrades   |-> inp.totalTrades,
                                      totalNotional |-> inp.totalNotional,
                                      volatility    |-> inp.volatility])>>
  /\ UNCHANGED <<inp, imb, ob, ioVars, cache, staleCache, cacheVars, svcVars, aggVars>>

EmptyStore == [k \in {} |-> 0]

Init ==
  /\ focus \in CacheKeys
  /\ cache = EmptyStore
  /\ staleCache = EmptyStore
  /\ call = [c \in Calls |-> IdleCall]
  /\ sinceStale = -1
  /\ listed = TRUE
  /\ root = "none"
  /\ task = [t \in Tasks |-> IdleTask]
  /\ missed = FALSE
  /\ rq = [op |-> "none", metric |-> "volume", type |-> "all", limit |-> 1]
  /\ mkts = <<>>
  /\ agg = IdleAgg
  /\ subs = <<>>
  /\ runs = 0
  /\ NoCalc

Next ==
  \/ \E c \in Calls, k \in CacheKeys : CacheGetOrSetStart(c, k)
  \/ \E c \in Calls, v \in Values : FetcherResolve(c, v)
  \/ \E c \in Calls, e \in Errors : FetcherReject(c, e)
  \/ \E c \in Calls : Return(c)
  \/ \E k \in CacheKeys : CacheInvalidate(k)
  \/ CheckData
  \/ Tick

Spec == Init /\ [][Next]_vars

InitSvc ==
  /\ focus = <<"health", "m1">>
  /\ cache = EmptyStore
  /\ staleCache = EmptyStore
  /\ call = [c \in Calls |-> IdleCall]
  /\ sinceStale = -1
  /\ listed = TRUE
  /\ root = "none"
  /\ task = [t \in Tasks |-> IdleTask]
  /\ missed = FALSE
  /\ rq = [op |-> "none", metric |-> "volume", type |-> "all", limit |-> 1]
  /\ mkts = <<>>
  /\ agg = IdleAgg
  /\ subs = <<>>
  /\ runs = 0
  /\ NoCalc

NextSvc ==
  \/ \E op \in Ops : Request(op)
  \/ \E t \in Tasks : SpotResolve(t)
  \/ \E t \in Tasks : SpotReject(t)
  \/ \E t \in Tasks : DerivResolve(t)
  \/ \E t \in Tasks : DerivReject(t)
  \/ \E t \in Tasks : LookupFail(t)
  \/ \E t \in Tasks : LookupMissing(t)
  \/ \E t \in Tasks : LookupFound(t)
  \/ \E t \in Tasks : UpstreamResolve(t)
  \/ \E t \in Tasks : UpstreamReject(t)
  \/ \E t \in Tasks : ProducerResolve(t)
  \/ \E t, u \in Tasks : ProducerReject(t, u)
  \/ Respond
  \/ ToggleListing
  \/ \E k \in SvcKeys : Expire(k)

SpecSvc == InitSvc /\ [][NextSvc]_vars

\* getAllMarkets() of an exchange listing n markets: [...spot, ...derivative],
\* the larger half of them spot
MarketList(n) ==
  [i \in 1..n |-> [marketId |-> i,
                   type |-> IF i <= (n + 1) \div 2 THEN "spot" ELSE "derivative"]]

Requests ==
  { [op |-> "rankings", metric |-> m, type |-> t, limit |-> l] :
      m \in Metrics, t \in Types, l \in 1..MaxLimit }
  \cup { [op |-> "overview", metric |-> "volume", type |-> "all", limit |-> 1] }

InitAgg ==
  /\ focus = <<"health", "m1">>
  /\ cache = EmptyStore
  /\ staleCache = EmptyStore
  /\ call = [c \in Calls |-> IdleCall]
  /\ sinceStale = -1
  /\ listed = TRUE
  /\ root = "none"
  /\ task = [t \in Tasks |-> IdleTask]
  /\ missed = FALSE
  /\ rq \in Requests
  /\ \E n \in 0..MaxMarkets : mkts = MarketList(n)
  /\ agg = IdleAgg
  /\ subs = <<>>
  /\ runs = 0
  /\ NoCalc

SubSettle ==
  \E i \in 1..MaxMarkets :
     \/ \E r \in TradeStatsSet \cup ObMetricsSet \cup HealthSet : SubFulfil(i, r)
     \/ SubReject(i)

Join == JoinRankings \/ JoinTrades \/ JoinOrderbook \/ JoinHealth

NextAgg ==
  \/ AggStart
  \/ MarketsResolve
  \/ MarketsReject
  \/ \E i \in 1..MaxMarkets :
        \E r \in TradeStatsSet \cup ObMetricsSet \cup HealthSet : SubFulfil(i, r)
  \/ \E i \in 1..MaxMarkets : SubReject(i)
  \/ JoinRankings
  \/ JoinTrades
  \/ JoinOrderbook
  \/ JoinHealth
  \/ AggRespond
  \/ Expire(AggKey)

SpecAgg == InitAgg /\ [][NextAgg]_vars

\* every started sub-computation settles, and the event loop runs continuations
FairSpecAgg == SpecAgg /\ WF_vars(SubSettle) /\ WF_vars(Join)

\* The aggregator over long market lists.  Sub-computations settle in the order
\* of issue with one result per kind, and only the first may fail.
FanRequests ==
  { [op |-> "rankings", metric |-> m, type |-> t, limit |-> l] :
      m \in Metrics, t \in Types, l \in {LimitMin, LimitDefault, LimitMax} }
  \cup { [op |-> "overview", metric |-> "volume", type |-> "all", limit |-> 1] }

FanResult(kind) ==
  CASE kind = "trades"    -> [totalNotional |-> Dec(5), volatility |-> 300000]
    [] kind = "orderbook" -> [bidDepthNotional |-> Dec(10), askDepthNotional |-> Dec(10),
                              relativeSpreadBps |-> Dec(20)]
    [] kind = "health"    -> [healthScore |-> 55]

InitFan ==
  /\ focus = <<"health", "m1">>
  /\ cache = EmptyStore
  /\ staleCache = EmptyStore
  /\ call = [c \in Calls |-> IdleCall]
  /\ sinceStale = -1
  /\ listed = TRUE
  /\ root = "none"
  /\ task = [t \in Tasks |-> IdleTask]
  /\ missed = FALSE
  /\ rq \in FanRequests
  /\ \E n \in 0..MaxFanMarkets : mkts = MarketList(n)
  /\ agg = IdleAgg
  /\ subs = <<>>
  /\ runs = 0
  /\ NoCalc

\* every sub-computation issued before the i-th has settled
InOrder(i) == \A j \in 1..(i - 1) : subs[j].st # "running"

NextFan ==
  \/ AggStart
  \/ MarketsResolve
  \/ MarketsReject
  \/ \E i \in 1..Len(subs) :
        agg.pc = "fan" /\ InOrder(i) /\ SubFulfil(i, FanResult(agg.phase))
  \/ SubReject(1)
  \/ JoinRankings
  \/ JoinTrades
  \/ JoinOrderbook
  \/ JoinHealth
  \/ AggRespond
  \/ Expire(AggKey)

SpecFan == InitFan /\ [][NextFan]_vars

\* An aggregate request served while a second call of the same operation with
\* the same arguments (caller 1 of the cache layer) overlaps it.  The second
\* call's producer either computes the result of a fan-out in which every
\* sub-computation fulfilled, or fails in getAllMarkets().
OverlapRequests ==
  { [op |-> "rankings", metric |-> m, type |-> "all", limit |-> MaxLimit] :
      m \in Metrics }
  \cup { [op |-> "overview", metric |-> "volume", type |-> "all", limit |-> 1] }

CompleteSubs(kind, ms) ==
  [i \in 1..Len(ms) |-> [market |-> ms[i], st |-> "fulfilled", r |-> FanResult(kind)]]

CompleteData ==
  IF rq.op = "overview"
  THEN LET top == Slice(mkts, OverviewTradesCap)
           acc == VolumeLoop(CompleteSubs("trades", top), 1,
                             [total |-> 0, top |-> NoTop])
           liq == LiquidityLoop(CompleteSubs("orderbook", Slice(top, OverviewObCap)),
                                1, NoTop)
       IN  Overview([IdleAgg EXCEPT !.totalVolume = acc.total,
                                    !.topByVolume = acc.top,
                                    !.topByLiquidity = liq],
                    CompleteSubs("health", Slice(top, OverviewHealthCap)))
  ELSE Ranking(rq.metric, rq.limit,
               CompleteSubs(FanKind(rq.metric),
                            Slice(FilterType(mkts, rq.type), RankCap)))

InitOverlap ==
  /\ rq \in OverlapRequests
  /\ focus = AggKey
  /\ cache = EmptyStore
  /\ staleCache = EmptyStore
  /\ call = [c \in Calls |-> IdleCall]
  /\ sinceStale = -1
  /\ listed = TRUE
  /\ root = "none"
  /\ task = [t \in Tasks |-> IdleTask]
  /\ missed = FALSE
  /\ \E n \in 0..MaxMarkets : mkts = MarketList(n)
  /\ agg = IdleAgg
  /\ subs = <<>>
  /\ runs = 0
  /\ NoCalc

NextOverlap ==
  \/ AggStart
  \/ MarketsResolve
  \/ MarketsReject
  \/ \E i \in 1..Len(subs) : agg.pc = "fan" /\ SubFulfil(i, FanResult(agg.phase))
  \/ \E i \in 1..MaxMarkets : SubReject(i)
  \/ JoinRankings
  \/ JoinTrades
  \/ JoinOrderbook
  \/ JoinHealth
  \/ AggRespond
  \/ CacheGetOrSetStart(1, AggKey)
  \/ \E d \in {CompleteData} : FetcherResolve(1, d)
  \/ FetcherReject(1, "UPSTREAM_ERROR")
  \/ Return(1)
  \/ Expire(AggKey)

SpecOverlap == InitOverlap /\ [][NextOverlap]_vars

\* getMarketHealth and getMarketSummary for the listed market m1, at a time
\* when both market lists are cached, so that every getMarketById finds m1
\* without a round trip
SumKeys == {Key(t) : t \in Tasks}

InitSum ==
  /\ focus = <<"summary", "m1">>
  /\ cache = CacheSet(CacheSet(EmptyStore, SpotKey, TRUE, cacheTTL(SpotKey), TRUE),
                      DerivKey, FALSE, cacheTTL(DerivKey), TRUE)
  /\ staleCache = StaleSet(StaleSet(EmptyStore, SpotKey, TRUE), DerivKey, FALSE)
  /\ call = [c \in Calls |-> IdleCall]
  /\ sinceStale = -1
  /\ listed = TRUE
  /\ root = "none"
  /\ task = [t \in Tasks |-> IdleTask]
  /\ missed = FALSE
  /\ rq = [op |-> "none", metric |-> "volume", type |-> "all", limit |-> 1]
  /\ mkts = <<>>
  /\ agg = IdleAgg
  /\ subs = <<>>
  /\ runs = 0
  /\ NoCalc

NextSum ==
  \/ \E op \in {"health", "summary"} : Request(op)
  \/ \E t \in Tasks : LookupFound(t)
  \/ \E t \in Tasks : UpstreamResolve(t)
  \/ \E t \in Tasks : UpstreamReject(t)
  \/ \E t \in Tasks : ProducerResolve(t)
  \/ \E t, u \in Tasks : ProducerReject(t, u)
  \/ Respond
  \/ \E k \in SumKeys : Expire(k)

SpecSum == InitSum /\ [][NextSum]_vars

----------------------------------------------------------------------------
(* The order book: processLevels and computeMetrics on the raw levels      *)

\* A converted level price p stands for p / PriceUnit and a converted
\* quantity q for q / QuantityUnit: what spotPriceToHuman, spotQuantityToHuman
\* and derivativePriceToHuman return for the level's strings. A reported
\* price is in units of 10^-8, a reported quantity or total in units of
\* 10^-7 (a multiple of ten of them), a notional in hundredths.
PriceUnit == 10 * 100
QuantityUnit == 10 * 1000000

\* toFixedSafe of a quotient of either sign: toFixed rounds the magnitude
toFixedSafeSigned(q, decimals) ==
  IF q.n < 0 THEN -toFixedSafe([n |-> -q.n, d |-> q.d], decimals)
  ELSE toFixedSafe(q, decimals)

RECURSIVE GCD(_, _)
GCD(a, b) == IF b = 0 THEN a ELSE GCD(b, a % b)

\* the quotient n / d in lowest terms, d > 0
Quot(n, d) ==
  LET g == GCD(Abs(n), d) IN [n |-> n \div g, d |-> d \div g]

\* defect: no guard on the two best prices
relativeSpreadBpsUnguarded(bestBid, bestAsk) ==
  IF bestBid + bestAsk = 0 THEN [n |-> 0, d |-> 1]
  ELSE LET r == Quot(2 * (bestAsk - bestBid), bestBid + bestAsk)
       IN  [n |-> r.n * 10000, d |-> r.d]

\* relativeSpreadBps: ((bestAsk - bestBid) / midPrice) * 10000 with
\* midPrice = (bestBid + bestAsk) / 2, as a quotient of basis points
relativeSpreadBps(bestBid, bestAsk) ==
  IF bestBid <= 0 \/ bestAsk <= 0 THEN [n |-> 0, d |-> 1]
  ELSE LET r == Quot(2 * (bestAsk - bestBid), bestBid + bestAsk)
       IN  [n |-> r.n * 10000, d |-> r.d]

\* cumulative after the i-th level of the loop: the converted quantities
\* added up as they are
RECURSIVE Cumulative(_, _)
Cumulative(levels, i) ==
  IF i = 0 THEN 0 ELSE Cumulative(levels, i - 1) + levels[i].quantity

\* defect: total is the level's own quantity
processLevelsPerLevel(rawLevels, depth) ==
  LET sliced == Slice(rawLevels, depth)
  IN  [ i \in 1..Len(sliced) |->
          [ price    |-> toFixedSafe([n |-> sliced[i].price, d |-> PriceUnit], 8),
            quantity |-> toFixedSafe6(sliced[i].quantity),
            total    |-> toFixedSafe6(sliced[i].quantity),
            notional |-> RoundDiv(sliced[i].price * sliced[i].quantity,
                                  (PriceUnit \div 100) * QuantityUnit) ] ]

\* processLevels: price * quantity is in units of 1 / PriceUnit / QuantityUnit,
\* so toFixedSafe(price * quantity, 2) is that product over
\* (PriceUnit / 100) * QuantityUnit, rounded
processLevels(rawLevels, depth) ==
  LET sliced == Slice(rawLevels, depth)
  IN  [ i \in 1..Len(sliced) |->
          [ price    |-> toFixedSafe([n |-> sliced[i].price, d |-> PriceUnit], 8),
            quantity |-> toFixedSafe6(sliced[i].quantity),
            total    |-> toFixedSafe6(Cumulative(sliced, i)),
            notional |-> RoundDiv(sliced[i].price * sliced[i].quantity,
                                  (PriceUnit \div 100) * QuantityUnit) ] ]

\* bids.reduce((sum, l) => sum + l.notional, 0)
RECURSIVE SumNotional(_, _)
SumNotional(levels, i) ==
  IF i = 0 THEN 0 ELSE SumNotional(levels, i - 1) + levels[i].notional

\* computeMetrics(bids, asks) on the processed levels; the fields the health
\* score reads are those of computeMetrics above
OrderbookMetrics(bids, asks) ==
  LET bestBid == IF Len(bids) > 0 THEN bids[1].price ELSE 0
      bestAsk == IF Len(asks) > 0 THEN asks[1].price ELSE 0
      bidDepthTotal == IF Len(bids) > 0 THEN bids[Len(bids)].total ELSE 0
      askDepthTotal == IF Len(asks) > 0 THEN asks[Len(asks)].total ELSE 0
      scored == computeMetrics(
                  SumNotional(bids, Len(bids)), SumNotional(asks, Len(asks)),
                  toFixedSafeSigned(relativeSpreadBps(bestBid, bestAsk), 2))
  IN  [ midPrice          |-> IF bestBid > 0 /\ bestAsk > 0
                                THEN MathRound(bestBid + bestAsk, 2) ELSE 0,
        bestBid           |-> bestBid,
        bestAsk           |-> bestAsk,
        absoluteSpread    |-> IF bestAsk > 0 /\ bestBid > 0
                                THEN bestAsk - bestBid ELSE 0,
        relativeSpreadBps |-> scored.relativeSpreadBps,
        bidDepthTotal     |-> toFixedSafe6(bidDepthTotal),
        askDepthTotal     |-> toFixedSafe6(askDepthTotal),
        bidDepthNotional  |-> scored.bidDepthNotional,
        askDepthNotional  |-> scored.askDepthNotional,
        depthImbalance    |-> scored.depthImbalance ]

\* fetchAndProcessOrderbook on the raw book the indexer returned
fetchAndProcessOrderbook(r) ==
  LET bids == processLevels(r.buys, r.depth)
      asks == processLevels(r.sells, r.depth)
  IN  [bids |-> bids, asks |-> asks, metrics |-> OrderbookMetrics(bids, asks)]

\* raw books: up to MaxLevels levels a side, bids from the best price down
\* and asks from the best price up, the two sides apart or crossed, with
\* quantities below and above the sixth decimal
MaxLevels == 3
Quantities == {4, 14, 5000000}
BidTops == {100, 104}
AskTop == 100 + 2
DepthDefault == 25
BookDepths == {1, 2, DepthDefault}

Ladder(top, step, qs) ==
  [i \in 1..Len(qs) |-> [price |-> top + step * (i - 1), quantity |-> qs[i]]]

QuantityLists == UNION { [1..n -> Quantities] : n \in 0..MaxLevels }

RawBooks ==
  { [buys |-> Ladder(bt, -2, bq), sells |-> Ladder(AskTop, 2, aq), depth |-> d] :
      bt \in BidTops, bq \in QuantityLists, aq \in QuantityLists, d \in BookDepths }

\* getOrderbook's producer, once the indexer has answered
FetchAndProcessOrderbook ==
  /\ raw # <<>>
  /\ book = <<>>
  /\ book' = <<fetchAndProcessOrderbook(raw[1])>>
  /\ UNCHANGED <<raw, stats, param, inp, imb, ob, health,
                 cache, staleCache, cacheVars, svcVars, aggVars>>

----------------------------------------------------------------------------
(* The trade window: normalizeTrade, computeTradeStats and emptyStats       *)

\* a trade without a tradeDirection field
Undefined == "undefined"

\* Infinity, which no count, price or ratio of a window equals
Infinity == 0 - 1

\* defect: 'sell' is what is recognised, everything else is a buy
normalizeTradeSellMarker(t) ==
  [ price    |-> toFixedSafe([n |-> t.price, d |-> PriceUnit], 8),
    quantity |-> toFixedSafe6(t.quantity),
    notional |-> RoundDiv(t.price * t.quantity, (PriceUnit \div 100) * QuantityUnit),
    side     |-> IF t.tradeDirection = "sell" THEN "sell" ELSE "buy" ]

\* normalizeTrade, from the converted price and quantity of the raw trade
normalizeTrade(t) ==
  [ price    |-> toFixedSafe([n |-> t.price, d |-> PriceUnit], 8),
    quantity |-> toFixedSafe6(t.quantity),
    notional |-> RoundDiv(t.price * t.quantity, (PriceUnit \div 100) * QuantityUnit),
    side     |-> IF t.tradeDirection = "buy" THEN "buy" ELSE "sell" ]

\* emptyStats
emptyStats ==
  [ period             |-> <<"no_data">>,
    totalTrades        |-> 0,
    totalVolume        |-> 0,
    totalNotional      |-> 0,
    avgPrice           |-> 0,
    avgTradeSize       |-> 0,
    highPrice          |-> 0,
    lowPrice           |-> 0,
    priceChange        |-> 0,
    priceChangePercent |-> 0,
    buyCount           |-> 0,
    sellCount          |-> 0,
    buySellRatio       |-> 0,
    volatility         |-> 0,
    trades             |-> <<>> ]

\* the largest v with v * v <= x, for 0 <= x below 2^31
RECURSIVE IsqrtIn(_, _, _)
IsqrtIn(x, lo, hi) ==
  IF lo >= hi THEN lo
  ELSE LET mid == (lo + hi + 1) \div 2
       IN  IF mid * mid <= x THEN IsqrtIn(x, mid, hi) ELSE IsqrtIn(x, lo, mid - 1)

Isqrt(x) == IsqrtIn(x, 0, 46340)

\* Math.log(1.02)^2 in units of 10^-12: the trade prices of the model are one
\* step of 2% apart, so a log return is -1, 0 or 1 times Math.log(1.02)
LogStepSq == 392144 * 1000 + 48

\* Math.log(prices[i] / prices[i - 1]) in steps, for two positive prices
LogReturn(prev, cur) == IF cur > prev THEN 1 ELSE IF cur < prev THEN -1 ELSE 0

RECURSIVE SumOf(_, _)
SumOf(vs, i) == IF i = 0 THEN 0 ELSE SumOf(vs, i - 1) + vs[i]

\* standardDeviation of the log returns, then toFixedSafe(_, 6): the sample
\* variance of n values is (n * sum of squares - square of sum) / (n * (n - 1)),
\* here in squared steps; the result is in units of 10^-6
standardDeviation(values) ==
  IF Len(values) < 2 THEN 0
  ELSE LET n == Len(values)
           sq == [i \in 1..n |-> values[i] * values[i]]
           v == n * SumOf(sq, n) - SumOf(values, n) * SumOf(values, n)
           x == Scaled(LogStepSq, v, n * (n - 1))
           r == Isqrt(x)
       IN  IF x - r * r > r THEN r + 1 ELSE r

\* realizedVolatility(prices)
realizedVolatility(prices) ==
  IF Len(prices) < 3 THEN 0
  ELSE LET pairs == SelectSeq([i \in 1..Len(prices) - 1 |-> <<prices[i], prices[i + 1]>>],
                              LAMBDA pr : pr[1] > 0 /\ pr[2] > 0)
           logReturns == [i \in 1..Len(pairs) |-> LogReturn(pairs[i][1], pairs[i][2])]
       IN  IF Len(logReturns) < 2 THEN 0 ELSE standardDeviation(logReturns)

MaxOf(vs) == CHOOSE v \in {vs[i] : i \in 1..Len(vs)} : \A i \in 1..Len(vs) : vs[i] <= v
MinOf(vs) == CHOOSE v \in {vs[i] : i \in 1..Len(vs)} : \A i \in 1..Len(vs) : vs[i] >= v

\* the statistics of a window with at least one trade; prices in units of
\* 10^-8, volumes in units of 10^-7, notionals in hundredths, the percent
\* change and the buy/sell ratio in units of 10^-4
windowStats(trades) ==
  LET n == Len(trades)
      prices == [i \in 1..n |-> trades[i].price]
      quantities == [i \in 1..n |-> trades[i].quantity]
      notionals == [i \in 1..n |-> trades[i].notional]
      totalVolume == toFixedSafe6(SumOf(quantities, n))
      oldestPrice == prices[n]
      newestPrice == prices[1]
      priceChange == newestPrice - oldestPrice
      buyCount == Len(SelectSeq(trades, LAMBDA t : t.side = "buy"))
      sellCount == Len(SelectSeq(trades, LAMBDA t : t.side = "sell"))
  IN  [ period             |-> <<"last", n, "trades">>,
        totalTrades        |-> n,
        totalVolume        |-> totalVolume,
        totalNotional      |-> SumOf(notionals, n),
        avgPrice           |-> MathRound(SumOf(prices, n), n),
        avgTradeSize       |-> 10 * MathRound(totalVolume \div 10, n),
        highPrice          |-> MaxOf(prices),
        lowPrice           |-> MinOf(prices),
        priceChange        |-> priceChange,
        priceChangePercent |->
          IF oldestPrice > 0
            THEN toFixedSafeSigned(Quot(100 * (priceChange \div 1000),
                                        oldestPrice \div 1000), 4)
            ELSE 0,
        buyCount           |-> buyCount,
        sellCount          |-> sellCount,
        buySellRatio       |->
          IF sellCount > 0 THEN toFixedSafe([n |-> buyCount, d |-> sellCount], 4)
          ELSE IF buyCount > 0 THEN Infinity ELSE 0,
        volatility         |-> realizedVolatility(prices),
        trades             |-> trades ]

\* defect: no guard on the empty window
computeTradeStatsUnguarded(trades) ==
  IF Len(trades) = 0
    THEN [emptyStats EXCEPT !.period = <<"last", 0, "trades">>]
    ELSE windowStats(trades)

\* computeTradeStats
computeTradeStats(trades) ==
  IF Len(trades) = 0 THEN emptyStats ELSE windowStats(trades)

\* fetchAndProcessTrades on what fetchTrades resolved to: result.trades || []
fetchAndProcessTrades(result) ==
  LET rawTrades == IF result.hasTrades THEN result.trades ELSE <<>>
  IN  computeTradeStats([i \in 1..Len(rawTrades) |-> normalizeTrade(rawTrades[i])])

\* raw trade windows, newest trade first
MaxTrades == 3
TradePrices == {100, 100 + 2}
TradeQuantities == {14, 5000000}
Directions == {"buy", "sell", "long", Undefined}

RawTrade ==
  [price : TradePrices, quantity : TradeQuantities, tradeDirection : Directions]

RawTradeResults ==
  { [hasTrades |-> TRUE, trades |-> w] :
      w \in UNION { [1..n -> RawTrade] : n \in 0..MaxTrades } }
    \cup { [hasTrades |-> FALSE, trades |-> <<>>] }

\* getTradeStats' producer, once the indexer has answered
FetchAndProcessTrades ==
  /\ raw # <<>>
  /\ stats = <<>>
  /\ stats' = <<fetchAndProcessTrades(raw[1])>>
  /\ UNCHANGED <<raw, book, param, inp, imb, ob, health,
                 cache, staleCache, cacheVars, svcVars, aggVars>>

----------------------------------------------------------------------------
(* The request layer: parseIntParam on the query values of the controllers  *)

\* A query value is absent or a string, written as the sequence of its
\* characters
Absent == <<"undefined">>
Digits == {"0", "1", "2", "5"}
Chars == Digits \cup {"-", ".", "a", " "}

DigitValue(c) ==
  IF c = "0" THEN 0 ELSE IF c = "1" THEN 1 ELSE IF c = "2" THEN 2 ELSE 5

\* the string without its leading white space
RECURSIVE TrimStart(_)
TrimStart(str) ==
  IF str # <<>> /\ Head(str) = " " THEN TrimStart(Tail(str)) ELSE str

\* the longest prefix of digits
RECURSIVE DigitPrefix(_)
DigitPrefix(str) ==
  IF str # <<>> /\ Head(str) \in Digits
    THEN <<Head(str)>> \o DigitPrefix(Tail(str))
    ELSE <<>>

\* the number a string of digits writes
RECURSIVE NumberOf(_)
NumberOf(ds) ==
  IF ds = <<>> THEN 0
  ELSE 10 * NumberOf(SubSeq(ds, 1, Len(ds) - 1)) + DigitValue(ds[Len(ds)])

\* parseInt(value, 10): white space is skipped, a sign is read, then the
\* longest run of digits; what follows the digits is ignored. <<>> is NaN
parseInt(str) ==
  LET trimmed == TrimStart(str)
      negative == trimmed # <<>> /\ Head(trimmed) = "-"
      digits == DigitPrefix(IF negative THEN Tail(trimmed) ELSE trimmed)
  IN  IF digits = <<>> THEN <<>>
      ELSE <<(IF negative THEN -1 ELSE 1) * NumberOf(digits)>>

InvalidParameterError(message) == [kind |-> "error", message |-> message]
Returned(n) == [kind |-> "value", value |-> n]

\* parseIntParam(value, name, options)
parseIntParam(value, options) ==
  IF value = Absent \/ value = <<>> THEN Returned(options.default)
  ELSE LET parsed == parseInt(value)
       IN  IF parsed = <<>>
             THEN InvalidParameterError("must be a valid integer")
           ELSE IF parsed[1] < options.min \/ parsed[1] > options.max
             THEN InvalidParameterError("must be between")
           ELSE Returned(parsed[1])

\* the options of the three handlers: depth of getMarketOrderbook, limit of
\* getMarketTrades, limit of the rankings handler
DepthMin == 1
DepthMax == 50
TradesMin == 1
TradesDefault == 50
TradesMax == 100
Handlers == {"getMarketOrderbook", "getMarketTrades", "getRankings"}

Options(handler) ==
  IF handler = "getMarketOrderbook"
    THEN [default |-> DepthDefault, min |-> DepthMin, max |-> DepthMax]
  ELSE IF handler = "getMarketTrades"
    THEN [default |-> TradesDefault, min |-> TradesMin, max |-> TradesMax]
  ELSE [default |-> LimitDefault, min |-> LimitMin, max |-> LimitMax]

MaxChars == 3
QueryValues == {Absent} \cup UNION { [1..n -> Chars] : n \in 0..MaxChars }

\* a handler reads its query parameter; the service is called with the value
\* returned, and not at all when parseIntParam throws
ParseQuery ==
  /\ raw # <<>>
  /\ param = <<>>
  /\ param' = <<parseIntParam(raw[1].value, Options(raw[1].handler))>>
  /\ UNCHANGED <<raw, book, stats, inp, imb, ob, health,
                 cache, staleCache, cacheVars, svcVars, aggVars>>

\* One order book and one trade window, reduced to metrics and scored
InitCalc ==
  /\ focus = <<"health", "m1">>
  /\ cache = EmptyStore
  /\ staleCache = EmptyStore
  /\ call = [c \in Calls |-> IdleCall]
  /\ sinceStale = -1
  /\ listed = TRUE
  /\ root = "none"
  /\ task = [t \in Tasks |-> IdleTask]
  /\ missed = FALSE
  /\ rq = [op |-> "none", metric |-> "volume", type |-> "all", limit |-> 1]
  /\ mkts = <<>>
  /\ agg = IdleAgg
  /\ subs = <<>>
  /\ runs = 0
  /\ inp \in PossibleInputs
  /\ imb = <<>>
  /\ ob = <<>>
  /\ health = <<>>
  /\ NoIO

NextCalc ==
  \/ DepthImbalanceCall
  \/ ComputeMetrics
  \/ ComputeHealth

SpecCalc == InitCalc /\ [][NextCalc]_vars

\* the variables of the cache, the services and the aggregator at rest
AtRest ==
  /\ focus = <<"health", "m1">>
  /\ cache = EmptyStore
  /\ staleCache = EmptyStore
  /\ call = [c \in Calls |-> IdleCall]
  /\ sinceStale = -1
  /\ listed = TRUE
  /\ root = "none"
  /\ task = [t \in Tasks |-> IdleTask]
  /\ missed = FALSE
  /\ rq = [op |-> "none", metric |-> "volume", type |-> "all", limit |-> 1]
  /\ mkts = <<>>
  /\ agg = IdleAgg
  /\ subs = <<>>
  /\ runs = 0
  /\ inp = NoInput
  /\ imb = <<>>
  /\ ob = <<>>
  /\ health = <<>>

\* One raw order book, processed at the requested depth
InitBook ==
  /\ AtRest
  /\ raw \in { <<r>> : r \in RawBooks }
  /\ book = <<>>
  /\ stats = <<>>
  /\ param = <<>>

NextBook == FetchAndProcessOrderbook

SpecBook == InitBook /\ [][NextBook]_vars

\* One window of raw trades, normalized and reduced to statistics
InitTrades ==
  /\ AtRest
  /\ raw \in { <<r>> : r \in RawTradeResults }
  /\ book = <<>>
  /\ stats = <<>>
  /\ param = <<>>

NextTrades == FetchAndProcessTrades

SpecTrades == InitTrades /\ [][NextTrades]_vars

\* One request to one of the three handlers, with its query value
InitQuery ==
  /\ AtRest
  /\ raw \in { <<[handler |-> h, value |-> v]>> : h \in Handlers, v \in QueryValues }
  /\ book = <<>>
  /\ stats = <<>>
  /\ param = <<>>

NextQuery == ParseQuery

SpecQuery == InitQuery /\ [][NextQuery]_vars

\* getRankings by spread over markets whose order books are fetched and
\* processed: books with both sides (apart or crossed), with one side, with
\* none
RankRequests ==
  { [op |-> "rankings", metric |-> "spread", type |-> t, limit |-> l] :
      t \in Types, l \in 1..MaxLimit }

RankBooks ==
  { [buys |-> Ladder(bt, -2, bq), sells |-> Ladder(AskTop, 2, aq),
     depth |-> DepthDefault] :
      bt \in {AskTop - 1, AskTop + 1},
      bq \in {<<>>, <<5000000>>}, aq \in {<<>>, <<5000000, 14>>} }

\* getOrderbookMetrics on a raw book: the metrics of the processed book, the
\* spread in the aggregator's unit of 10^-7, with the number of levels a side
\* of the book had
ObMetricsOf(b) ==
  LET pb == fetchAndProcessOrderbook(b)
  IN  [ bidDepthNotional  |-> pb.metrics.bidDepthNotional * 100000,
        askDepthNotional  |-> pb.metrics.askDepthNotional * 100000,
        relativeSpreadBps |-> pb.metrics.relativeSpreadBps * 100000,
        bidLevels         |-> Len(pb.bids),
        askLevels         |-> Len(pb.asks) ]

\* the order-book sub-computation for the i-th market fulfilled, on book b
SubFulfilBook(i, b) ==
  /\ agg.pc = "fan" /\ agg.phase = "orderbook"
  /\ i \in 1..Len(subs) /\ subs[i].st = "running"
  /\ subs' = [subs EXCEPT ![i].st = "fulfilled", ![i].r = ObMetricsOf(b)]
  /\ UNCHANGED <<cache, staleCache, calcVars, rq, mkts, runs, agg, cacheVars, svcVars>>

InitRank ==
  /\ focus = <<"health", "m1">>
  /\ cache = EmptyStore
  /\ staleCache = EmptyStore
  /\ call = [c \in Calls |-> IdleCall]
  /\ sinceStale = -1
  /\ listed = TRUE
  /\ root = "none"
  /\ task = [t \in Tasks |-> IdleTask]
  /\ missed = FALSE
  /\ rq \in RankRequests
  /\ \E n \in 0..MaxMarkets : mkts = MarketList(n)
  /\ agg = IdleAgg
  /\ subs = <<>>
  /\ runs = 0
  /\ NoCalc

NextRank ==
  \/ AggStart
  \/ MarketsResolve
  \/ MarketsReject
  \/ \E i \in 1..MaxMarkets : \E b \in RankBooks : SubFulfilBook(i, b)
  \/ \E i \in 1..MaxMarkets : SubReject(i)
  \/ JoinRankings
  \/ AggRespond
  \/ Expire(AggKey)

SpecRank == InitRank /\ [][NextRank]_vars

TypeOK ==
  /\ DOMAIN cache \subseteq {focus}
  /\ DOMAIN staleCache \subseteq {focus}

----------------------------------------------------------------------------
(* Properties of the cache layer (checked under Spec) *)

StartStep(c)  == call[c].pc = "idle" /\ call'[c].pc # "idle"
SettleStep(c) == call[c].pc = "fetching" /\ call'[c].pc = "done"

\* C1: a call that finds a live primary entry returns that entry with
\* cached=true and no stale flag, invokes no fetcher and modifies neither store.
CacheHitFrame ==
  [][\A c \in Calls :
       (StartStep(c) /\ Has(cache, focus) /\ cache[focus].left >= 0) =>
          /\ call'[c].pc = "done"
          /\ call'[c].res = [kind |-> "value", data |-> cache[focus].v,
                             cached |-> TRUE, stale |-> FALSE]
          /\ call'[c].fetches = 0
          /\ \A d \in Calls : call'[d].fetches = call[d].fetches \/ d = c
          /\ cache' = cache
          /\ staleCache' = staleCache]_vars

\* a caller has been served a live entry that a successful fetch wrote
CacheHitSeen ==
  \E c \in Calls :
     /\ call[c].pc = "done" /\ call[c].fetches = 0
     /\ call[c].res.kind = "value" /\ call[c].res.cached
     /\ Live(cache, focus) /\ cache[focus].fresh

\* the two halves of the stale fallback, for a re-probe window of w seconds
StaleServed(c) ==
  (\E e \in Errors : FetcherReject(c, e)) /\ Has(staleCache, call[c].key) =>
     call'[c].res = [kind |-> "value", data |-> staleCache[call[c].key],
                     cached |-> TRUE, stale |-> TRUE]

NoRefetchWithin(c, w) ==
  (StartStep(c) /\ sinceStale >= 0 /\ sinceStale <= w) =>
     call'[c].pc = "done" /\ call'[c].fetches = 0

\* C2 as stated: after a stale-served call, no call for the key made within
\* 15 seconds invokes its fetcher.
StaleFallbackWithin15 ==
  [][\A c \in Calls :
       StaleServed(c) /\ NoRefetchWithin(c, StaleReseedTTL)]_vars

\* C2 amended: once a key has been seeded, a call whose fetcher fails returns
\* the seeded value flagged stale, and no call for the key made within
\* min(ttl, 15) seconds of it (with no cacheInvalidate in between) invokes
\* its fetcher.
StaleFallback ==
  [][\A c \in Calls :
       /\ StaleServed(c)
       /\ NoRefetchWithin(c, IF cacheTTL(focus) <= 15 THEN cacheTTL(focus)
                             ELSE 15)]_vars

\* a caller is served from the re-seeded entry some seconds after a
\* stale-served call
StaleWindowHit ==
  \E c \in Calls :
     /\ call[c].pc = "done" /\ call[c].fetches = 0
     /\ call[c].res.kind = "value" /\ call[c].res.cached /\ ~call[c].res.stale
     /\ sinceStale >= 5
     /\ Has(cache, focus) /\ ~cache[focus].fresh
     /\ call[c].res.data = staleCache[focus]

\* C4: on a miss the fetcher is invoked exactly once; when it succeeds the
\* result is written to the primary store with the key's ttl and to the
\* secondary store, and returned with cached=false and no stale flag.
CacheMissSuccess ==
  /\ [](\A c \in Calls : call[c].pc = "fetching" => call[c].fetches = 1)
  /\ [][\A c \in Calls :
          /\ (StartStep(c) /\ ~(Has(cache, focus) /\ cache[focus].left >= 0)) =>
                call'[c].pc = "fetching" /\ call'[c].fetches = 1
          /\ \A v \in Values :
               FetcherResolve(c, v) =>
                 /\ call'[c].fetches = 1
                 /\ Has(cache', call[c].key)
                 /\ cache'[call[c].key].v = v
                 /\ cache'[call[c].key].left = cacheTTL(call[c].key)
                 /\ Has(staleCache', call[c].key)
                 /\ staleCache'[call[c].key] = v
                 /\ call'[c].res = [kind |-> "value", data |-> v,
                                    cached |-> FALSE, stale |-> FALSE]]_vars

\* a miss has completed with a fresh value now held by both stores
CacheMissSeen ==
  \E c \in Calls :
     /\ call[c].pc = "done" /\ call[c].fetches = 1
     /\ call[c].res.kind = "value" /\ ~call[c].res.cached
     /\ Live(cache, focus) /\ cache[focus].v = call[c].res.data
     /\ cache[focus].left = cacheTTL(focus)
     /\ staleCache[focus] = call[c].res.data

\* C5: when the fetcher fails and the secondary store has no entry for the
\* key, the fetcher's own error reaches the caller and the call has modified
\* neither store.
FailureNoStale ==
  [][\A c \in Calls, e \in Errors :
       (FetcherReject(c, e) /\ ~Has(staleCache, call[c].key)) =>
          /\ call'[c].pc = "done"
          /\ call'[c].res = [kind |-> "error", err |-> e]
          /\ ~call[c].wrote /\ ~call'[c].wrote
          /\ cache' = cache
          /\ staleCache' = staleCache]_vars

\* a call has failed with a not-found error while no last-known-good exists
FailureNoStaleSeen ==
  \E c \in Calls :
     /\ call[c].pc = "done" /\ call[c].res.kind = "error"
     /\ call[c].res.err = "MARKET_NOT_FOUND"
     /\ ~Has(staleCache, focus)

\* C8: a value is flagged stale (and the primary entry re-seeded with the
\* shortened lifetime) only when the primary store holds no live entry
\* written by a successful fetch.
StaleOnlyAfterExpiry ==
  [][\A c \in Calls :
       (SettleStep(c) /\ call'[c].res.kind = "value" /\ call'[c].res.stale) =>
          ~(Has(cache, focus) /\ cache[focus].left >= 0 /\ cache[focus].fresh)]_vars

\* C3: when a lookup of the requested market finds no market, the operation
\* fails and returns no cached or last-known-good value.
NotFoundNeverMasked ==
  (root # "none" /\ task[root].pc = "done" /\ missed) =>
     task[root].res.kind = "error"

\* C9 as stated: two calls that overlap on an uncached key both return a value.
OverlappingCallsReturnValues ==
  \A c \in Calls :
     (call[c].conc /\ call[c].pc = "done") => call[c].res.kind = "value"

\* C9 amended: two calls that overlap on an uncached key each invoke their
\* own fetcher (two invocations), and each completes when its own fetcher
\* settles, without touching the other: with a value, or with the fetcher's
\* error when the fetcher failed and no last-known-good value exists.
NoSingleFlight ==
  /\ [](\A c, d \in Calls :
          (c # d /\ call[c].pc = "fetching" /\ call[d].pc = "fetching"
                 /\ call[c].key = call[d].key) =>
             /\ call[c].conc /\ call[d].conc
             /\ call[c].fetches + call[d].fetches = 2)
  /\ [][\A c \in Calls :
          /\ (StartStep(c) /\ Fetching(focus) # {}
                /\ ~(Has(cache, focus) /\ cache[focus].left >= 0)) =>
               call'[c].pc = "fetching" /\ call'[c].fetches = 1
          /\ (call[c].conc /\ call[c].pc = "fetching" /\ call'[c] # call[c]) =>
               /\ call'[c].pc = "done"
               /\ \A d \in Calls \ {c} : call'[d] = call[d]
               /\ \/ call'[c].res.kind = "value"
                  \/ /\ call'[c].res.kind = "error"
                     /\ ~Has(staleCache, focus)
                     /\ \E e \in Errors : FetcherReject(c, e)]_vars

\* two overlapping calls have both completed, one with a value and one with
\* its fetcher's error
OverlapSeen ==
  \E c, d \in Calls :
     /\ c # d /\ call[c].conc /\ call[d].conc
     /\ call[c].pc = "done" /\ call[d].pc = "done"
     /\ call[c].fetches = 1 /\ call[d].fetches = 1
     /\ call[c].res.kind = "value" /\ call[d].res.kind = "error"

----------------------------------------------------------------------------
(* Properties of the aggregator (checked under SpecAgg and FairSpecAgg) *)

\* the entries of a ranking that name market id
EntriesOf(data, id) == {j \in 1..Len(data) : data[j].marketId = id}

\* C6: once the market list was obtained, getRankings returns a result and not
\* an error whatever sub-computations failed, and when limit is at least the
\* number of successes the result has exactly one entry for each market whose
\* sub-computation succeeded and none for a market whose sub-computation failed.
RankingsPartialFailure ==
  [][(rq.op = "rankings" /\ agg.pc = "fan" /\ agg'.pc = "done") =>
       /\ agg'.res.kind = "value"
       /\ rq.limit >= Len(Fulfilled(subs, 1)) =>
            /\ Len(agg'.res.data) = Len(Fulfilled(subs, 1))
            /\ \A i \in 1..Len(subs) :
                 Cardinality(EntriesOf(agg'.res.data, subs[i].market.marketId)) =
                   IF subs[i].st = "fulfilled" THEN 1 ELSE 0]_vars

\* three markets were ranked, one sub-computation failed, two entries came back
PartialRankingSeen ==
  /\ rq.op = "rankings" /\ agg.pc = "done" /\ agg.ran
  /\ Len(agg.markets) = 3 /\ agg.rejected = 1 /\ rq.limit >= 2
  /\ agg.res.kind = "value" /\ Len(agg.res.data) = 2

\* C7: the entries getRankings returns are in descending order of value for
\* volume, liquidity, health and volatility and in ascending order for spread,
\* and the entry at (1-based) position i has rank i.
RankingOrder ==
  (rq.op = "rankings" /\ agg.pc = "done" /\ agg.res.kind = "value") =>
     \A i \in 1..Len(agg.res.data) :
        /\ agg.res.data[i].rank = i
        /\ i < Len(agg.res.data) =>
             IF rq.metric = "spread"
             THEN agg.res.data[i].value <= agg.res.data[i + 1].value
             ELSE agg.res.data[i].value >= agg.res.data[i + 1].value

\* markets 1, 2, 3 with spreads 20, 5 and 50 bps were ranked 5, 20, 50
SpreadRankingSeen ==
  /\ rq.op = "rankings" /\ rq.metric = "spread" /\ agg.pc = "done" /\ agg.ran
  /\ Len(agg.markets) = 3 /\ agg.rejected = 0
  /\ agg.res.kind = "value"
  /\ [i \in 1..Len(agg.res.data) |-> agg.res.data[i].value] = <<Dec(5), Dec(20), Dec(50)>>
  /\ [i \in 1..Len(agg.res.data) |-> agg.res.data[i].rank] = <<1, 2, 3>>
  /\ [i \in 1..Len(agg.res.data) |-> agg.res.data[i].marketId] = <<2, 1, 3>>

\* the markets the current fan-out covers
FanMarkets ==
  IF rq.op = "rankings" \/ agg.phase = "trades" THEN agg.markets
  ELSE IF agg.phase = "orderbook" THEN Slice(agg.markets, OverviewObCap)
  ELSE Slice(agg.markets, OverviewHealthCap)

\* while the aggregate waits, every sub-computation of the fan-out has been started
AllStarted ==
  agg.pc = "fan" =>
     /\ Len(subs) = Len(FanMarkets)
     /\ \A i \in 1..Len(subs) :
          /\ subs[i].market = FanMarkets[i]
          /\ subs[i].st \in {"running", "fulfilled", "rejected"}

\* the aggregate leaves a wait only when every sub-computation has settled, and
\* then goes on with a value
JoinStep ==
  (agg.pc = "fan" /\ (agg'.pc # "fan" \/ agg'.phase # agg.phase)) =>
     /\ \A i \in 1..Len(subs) : subs[i].st \in {"fulfilled", "rejected"}
     /\ agg'.pc = "done" => agg'.res.kind = "value"
     /\ agg.phase = "trades" /\ rq.op = "overview" =>
          agg'.totalVolume = VolumeLoop(Fulfilled(subs, 1), 1,
                                        [total |-> 0, top |-> NoTop]).total

\* while the aggregate waits, the settling of one sub-computation leaves every
\* other one as it was: running ones keep running, results are kept
NoCancel ==
  (agg.pc = "fan" /\ agg'.pc = "fan" /\ agg'.phase = agg.phase) =>
     \A i \in 1..Len(subs) :
        \/ subs'[i] = subs[i]
        \/ /\ subs[i].st = "running" /\ subs'[i].st \in {"fulfilled", "rejected"}
           /\ \A j \in 1..Len(subs) : j = i \/ subs'[j] = subs[j]

\* C10: in every fan-out of getRankings and getOverview all sub-computations are
\* started before the aggregate waits, the aggregate continues only after every
\* one has settled, a failure neither cancels another sub-computation nor keeps
\* its result from being used, and if every sub-computation settles the
\* aggregate eventually completes.
FanOutJoin ==
  /\ []AllStarted
  /\ [][JoinStep /\ NoCancel]_vars
  /\ (agg.pc = "fan" ~> agg.pc = "done")

\* an overview of three markets completed although two sub-computations of
\* its last fan-out failed: the average is the one score that came back
OverviewJoinSeen ==
  /\ rq.op = "overview" /\ agg.pc = "done" /\ agg.ran
  /\ agg.res.kind = "value" /\ ~agg.res.cached
  /\ Len(agg.markets) = 3 /\ agg.rejected = 2
  /\ agg.res.data.avgHealthScore = 55
  /\ agg.res.data.totalVolume24h > 0

\* the first position holding the largest of the values vs
FirstMax(vs) ==
  CHOOSE i \in 1..Len(vs) :
     /\ \A j \in 1..Len(vs) : vs[j] <= vs[i]
     /\ \A j \in 1..(i - 1) : vs[j] < vs[i]

\* top is null when nothing succeeded, else it names the first-issued market
\* among those of rs holding the largest of the values vs
NamesFirstMax(top, rs, vs) ==
  IF rs = <<>> THEN top = NoTop
  ELSE top.marketId = rs[FirstMax(vs)].market.marketId

\* the volume half: topMarketByVolume after the trade-statistics join
TopByVolumeFirstMax ==
  [][(rq.op = "overview" /\ agg.pc = "fan" /\ agg.phase = "trades" /\ agg'.phase = "orderbook") =>
       \E rs \in {Fulfilled(subs, 1)} :
          NamesFirstMax(agg'.topByVolume, rs,
                        [i \in 1..Len(rs) |-> rs[i].r.totalNotional])]_vars

\* the liquidity half: topMarketByLiquidity after the order-book join
TopByLiquidityFirstMax ==
  [][(rq.op = "overview" /\ agg.pc = "fan" /\ agg.phase = "orderbook" /\ agg'.phase = "health") =>
       \E rs \in {Fulfilled(subs, 1)} :
          NamesFirstMax(agg'.topByLiquidity, rs,
                        [i \in 1..Len(rs) |->
                           FloatAdd(rs[i].r.bidDepthNotional,
                                    rs[i].r.askDepthNotional)])]_vars

\* C11: in getOverview the top market by volume and the top market by liquidity
\* are the markets with the largest value among the succeeded sub-computations,
\* the first-issued one when several share the largest value, whatever the
\* order of completion.
FirstIssuedWins == TopByVolumeFirstMax /\ TopByLiquidityFirstMax

----------------------------------------------------------------------------
(* Properties of the single-market operations (checked under SpecSum) *)

\* the invocations whose producer (transitively) awaits u
Enclosing(u) ==
  {a \in Tasks : u \in Children(a) \/ \E b \in Children(a) : u \in Children(b)}

Leaves == {t \in Tasks : Children(t) = {}}

\* an upstream fetch of the request failed with no last-known-good value for
\* its key nor for any enclosing key
UnmaskedFailure ==
  \E u \in Leaves :
     /\ task[u].pc = "done" /\ task[u].res.kind = "error"
     /\ \A a \in Enclosing(u) : ~Has(staleCache, Key(a))

PropagatesFailure ==
  (root \in {"H", "S"} /\ task[root].pc = "done") =>
     /\ UnmaskedFailure => task[root].res = ErrorResult("UPSTREAM_ERROR")
     /\ (task[root].res.kind = "value" /\ ~task[root].res.cached) =>
           \A c \in Children(root) :
              task[c].pc = "done" /\ task[c].res.kind = "value"

\* a fetch that settles ends its invocation: it is not issued again
NoRetry ==
  \A t \in Leaves :
     (task[t].pc = "fetch" /\ task'[t] # task[t]) => task'[t].pc = "done"

\* C12: for getMarketHealth and getMarketSummary on an existing market, when an
\* upstream order-book or trade fetch fails and neither its key nor an
\* enclosing health/summary key has a last-known-good value, the operation
\* fails with the upstream error; a fresh result is never partial or defaulted,
\* and a failed fetch is not retried.
SingleMarketPropagation == []PropagatesFailure /\ [][NoRetry]_vars

\* a summary failed because the order-book call of its health part failed,
\* although the summary's own order-book call succeeded
SummaryFailureSeen ==
  /\ root = "S" /\ task["S"].pc = "done"
  /\ task["S"].res = ErrorResult("UPSTREAM_ERROR")
  /\ task["SHO"].pc = "done" /\ task["SHO"].res.kind = "error"
  /\ task["SO"].pc = "done" /\ task["SO"].res.kind = "value"
  /\ task["SH"].pc = "done" /\ task["SH"].res.kind = "error"
  /\ UnmaskedFailure

----------------------------------------------------------------------------
(* Properties of getOverview (checked under SpecAgg) *)

RECURSIVE SumSeq(_)
SumSeq(vs) == IF vs = <<>> THEN 0 ELSE SumSeq(SubSeq(vs, 1, Len(vs) - 1)) + vs[Len(vs)]

\* the integer nearest to sum / n, halves going up
RoundedMean(sum, n) ==
  CHOOSE m \in 0..100 : 2 * n * m <= 2 * sum + n /\ 2 * sum + n < 2 * n * (m + 1)

\* after the trade-statistics join: the total is the sum over the succeeded
\* computations and the top market is null exactly when none succeeded
OverviewVolume ==
  (rq.op = "overview" /\ agg.pc = "fan" /\ agg.phase = "trades" /\ agg'.phase = "orderbook") =>
     \E rs \in {Fulfilled(subs, 1)} :
        /\ agg'.totalVolume = SumSeq([i \in 1..Len(rs) |-> rs[i].r.totalNotional])
        /\ (agg'.topByVolume = NoTop) = (rs = <<>>)

\* after the order-book join: the top market is null exactly when none succeeded
OverviewLiquidity ==
  (rq.op = "overview" /\ agg.pc = "fan" /\ agg.phase = "orderbook" /\ agg'.phase = "health") =>
     (agg'.topByLiquidity = NoTop) = (Fulfilled(subs, 1) = <<>>)

\* after the health join: a value is returned, built from the totals and from
\* the rounded mean of the succeeded health scores
OverviewResult ==
  (rq.op = "overview" /\ agg.pc = "fan" /\ agg.phase = "health" /\ agg'.pc = "done") =>
     \E rs \in {Fulfilled(subs, 1)} :
        /\ agg'.res.kind = "value"
        /\ agg'.res.data.totalVolume24h = toFixedSafe2(agg.totalVolume)
        /\ agg'.res.data.topMarketByVolume = agg.topByVolume
        /\ agg'.res.data.topMarketByLiquidity = agg.topByLiquidity
        /\ agg'.res.data.avgHealthScore =
             IF rs = <<>> THEN 0
             ELSE RoundedMean(SumSeq([i \in 1..Len(rs) |-> rs[i].r.healthScore]),
                              Len(rs))

\* C13: getOverview returns a result whatever sub-computations fail:
\* totalVolume24h sums the succeeded trade statistics, avgHealthScore is the
\* rounded mean of the succeeded health scores (0 when none), a top-market
\* field is null when no sub-computation of its kind succeeded, and the
\* operation fails only when the market list was not obtained.
OverviewPartialFailure ==
  /\ [][OverviewVolume /\ OverviewLiquidity /\ OverviewResult]_vars
  /\ []((rq.op = "overview" /\ agg.pc = "done" /\ agg.res.kind = "error") => ~agg.ran)

\* an overview of three markets: every trade computation and one health
\* computation failed; the mean of the scores 55 and 100 is reported as 78
PartialOverviewSeen ==
  /\ rq.op = "overview" /\ agg.pc = "done" /\ agg.ran
  /\ agg.res.kind = "value" /\ ~agg.res.cached
  /\ Len(agg.markets) = 3 /\ agg.rejected = 1
  /\ agg.res.data.avgHealthScore = 78
  /\ agg.res.data.topMarketByVolume = NoTop
  /\ agg.res.data.totalVolume24h = 0
  /\ agg.res.data.topMarketByLiquidity # NoTop

----------------------------------------------------------------------------
(* Properties of the fan-out size (checked under SpecFan) *)

\* s is the sequence of the first Len(s) elements of t
IsPrefix(s, t) == Len(s) <= Len(t) /\ \A i \in 1..Len(s) : s[i] = t[i]

IssuedMarkets == [i \in 1..Len(subs) |-> subs[i].market]

\* the sub-computations in flight are those of the first markets of the list,
\* at most 30 of them (15 and 10 for the order books and health of an overview)
BoundedIssue ==
  agg.pc = "fan" =>
     IF rq.op = "rankings"
     THEN /\ Len(subs) <= 30
          /\ IsPrefix(IssuedMarkets, FilterType(mkts, rq.type))
          /\ Len(subs) = 30 \/ Len(subs) = Len(FilterType(mkts, rq.type))
     ELSE /\ Len(subs) <= (CASE agg.phase = "trades"    -> 30
                             [] agg.phase = "orderbook" -> 15
                             [] agg.phase = "health"    -> 10)
          /\ IsPrefix(IssuedMarkets, mkts)

\* a ranking has at most min(limit, 30) entries
BoundedRanking ==
  (rq.op = "rankings" /\ agg.pc = "done" /\ agg.res.kind = "value") =>
     Len(agg.res.data) <= rq.limit /\ Len(agg.res.data) <= 30

\* C14: a getRankings producer run issues at most 30 sub-computations, for the
\* first 30 markets of the type-filtered list, and returns at most
\* min(limit, 30) entries; a getOverview producer run issues at most 30
\* trade-statistics, 15 order-book and 10 health sub-computations, each over a
\* prefix of the market list.
BoundedFanOut == BoundedIssue /\ BoundedRanking

\* more than 30 markets matched and limit 50 was asked: 30 entries came back
CappedRankingSeen ==
  /\ rq.op = "rankings" /\ rq.limit = 50 /\ agg.pc = "done" /\ agg.ran
  /\ Len(FilterType(mkts, rq.type)) > 30
  /\ agg.rejected = 0
  /\ agg.res.kind = "value" /\ Len(agg.res.data) = 30

----------------------------------------------------------------------------
(* Properties of the metrics and of the health score (checked under
   SpecCalc) *)

SubScores == {"liquidity", "spread", "volatility", "activity"}

\* C15: the healthScore of a MarketHealth is an integer in [0,100] whatever
\* the order-book metrics and the trade statistics are (no depth, no trade,
\* a spread of exactly 0, a one-sided book, depth or volume or spread or
\* volatility far beyond the scales), and so is each of the four sub-scores,
\* before and after it is rounded for the report.
HealthScoreRange ==
  health # <<>> =>
    /\ health[1].healthScore \in 0..100
    /\ \A m \in SubScores :
         /\ health[1].sub[m] >= 0
         /\ health[1].sub[m] <= 100 * Point
         /\ health[1].metrics[m] \in 0..100

\* A book with a cent on one side, where the balance penalty exceeds the
\* depth score, has been scored with no trade and no spread
PenaltyBeyondDepthSeen ==
  /\ health # <<>>
  /\ inp.bid = 1 /\ inp.ask = 40000
  /\ inp.totalTrades = 0 /\ inp.spreadBps = 0
  /\ health[1].sub.liquidity = 0
  /\ health[1].healthScore = 6

\* the grade the mapping of the claim gives a score
GradeOf(score) ==
  CASE score >= 90 -> "A+"
    [] score >= 80 /\ score < 90 -> "A"
    [] score >= 70 /\ score < 80 -> "B"
    [] score >= 60 /\ score < 70 -> "C"
    [] score >= 50 /\ score < 60 -> "D"
    [] score < 50 -> "F"

\* C16: the healthGrade of a MarketHealth is the grade of its healthScore
\* under >=90 A+, >=80 A, >=70 B, >=60 C, >=50 D, else F; every integer score
\* in [0,100] has one grade, and a score on a threshold has the higher one
\* (90 is A+, 89 is A, 70 is B, 69 is C).
HealthGradeOfScore ==
  /\ health # <<>> => health[1].healthGrade = GradeOf(health[1].healthScore)
  /\ \A score \in 0..100 : scoreToGrade(score) = GradeOf(score)
  /\ scoreToGrade(90) = "A+" /\ scoreToGrade(89) = "A"
  /\ scoreToGrade(70) = "B" /\ scoreToGrade(69) = "C"

\* A market whose score is exactly 90 has been graded
ThresholdGradeSeen ==
  /\ health # <<>>
  /\ health[1].healthScore = 90
  /\ health[1].healthGrade = "A+"

\* C17: the spread sub-score is 0 for a relativeSpreadBps of 0 or less, 100
\* for a positive one of at most 5 bps, 0 from 200 bps on, and
\* 100 - (spreadBps - 5) / 195 * 100 in between; over the positive spreads it
\* never grows with the spread.
SpreadSubScore ==
  health # <<>> =>
    LET spreadBps == ob[1].relativeSpreadBps
        score == health[1].sub.spread
    IN  /\ spreadBps <= 0 => score = 0
        /\ (spreadBps > 0 /\ spreadBps <= 500) => score = 100 * Point
        /\ spreadBps >= 20000 => score = 0
        /\ (spreadBps > 500 /\ spreadBps < 20000) =>
              195 * score = 195 * 100 * Point - (spreadBps - 500) * Point
        /\ \A wider \in SpreadSet :
              (spreadBps > 0 /\ wider >= spreadBps) =>
                 spreadScore([ob[1] EXCEPT !.relativeSpreadBps = wider]) <= score

\* A spread of 102.5 bps, half way along the linear stretch, has scored 50
LinearSpreadSeen ==
  /\ health # <<>>
  /\ ob[1].relativeSpreadBps = 10250
  /\ health[1].sub.spread = 50 * Point

\* C18: the volatility sub-score is the base 30 for vol < 0.001, 60 for
\* 0.001 <= vol < 0.005, 90 for 0.005 <= vol <= 0.03, 60 for
\* 0.03 < vol <= 0.08 and 20 above, plus min(20, totalTrades / 2), capped at
\* 100.
VolatilitySubScore ==
  health # <<>> =>
    LET vol == inp.volatility
        base == CASE vol < 1000 -> 30
                  [] vol >= 1000 /\ vol < 5000 -> 60
                  [] vol >= 5000 /\ vol <= 30000 -> 90
                  [] vol > 30000 /\ vol <= 80000 -> 60
                  [] vol > 80000 -> 20
    IN  2 * health[1].sub.volatility =
          Min(200 * Point, 2 * base * Point + Min(40 * Point, inp.totalTrades * Point))

\* A volatility of exactly 0.001 with three trades has scored 60 + 1.5
LowerThresholdSeen ==
  /\ health # <<>>
  /\ inp.volatility = 1000 /\ inp.totalTrades = 3
  /\ 2 * health[1].sub.volatility = 123 * Point

\* C19 as stated: the reported depthImbalance lies in [0,1], is 0 only when
\* the two notional depths are exactly equal, and is 1 only when exactly one
\* of them is zero and the other positive.
ReportedImbalanceExact ==
  ob # <<>> =>
    LET m == ob[1]
    IN  /\ m.depthImbalance \in 0..10000
        /\ m.depthImbalance = 0 => m.bidDepthNotional = m.askDepthNotional
        /\ m.depthImbalance = 10000 =>
              \/ m.bidDepthNotional = 0 /\ m.askDepthNotional > 0
              \/ m.askDepthNotional = 0 /\ m.bidDepthNotional > 0

\* C19: the reported depthImbalance is |bid - ask| / (bid + ask) to four
\* decimals. It lies in [0,1]; it is 0 when the two notional depths are equal
\* (both zero included), and otherwise only when the quotient is at most
\* 0.00005; it is 1 when exactly one side is zero and the other positive, and
\* otherwise only when the quotient is at least 0.99995.
ReportedImbalanceRounded ==
  ob # <<>> =>
    LET m == ob[1]
        total == m.bidDepthNotional + m.askDepthNotional
        diff == Abs(m.bidDepthNotional - m.askDepthNotional)
    IN  /\ m.depthImbalance \in 0..10000
        /\ m.bidDepthNotional = m.askDepthNotional => m.depthImbalance = 0
        /\ (total > 0 /\ diff = total) => m.depthImbalance = 10000
        /\ m.depthImbalance = 0 => diff <= total \div 20000
        /\ m.depthImbalance = 10000 => total > 0 /\ total - diff <= total \div 20000

\* A book with both sides filled has been reported as completely one-sided
RoundedToOneSeen ==
  /\ ob # <<>>
  /\ ob[1].bidDepthNotional > 0 /\ ob[1].askDepthNotional > 0
  /\ ob[1].depthImbalance = 10000

----------------------------------------------------------------------------
(* Further properties of the cache layer (checked under Spec) *)

\* C26: in every reachable state, whatever the interleaving of calls, fetcher
\* outcomes, expiries and invalidations, a key with a live entry in the
\* primary store has an entry in the secondary store holding the same value.
StoreConsistency ==
  \A k \in DOMAIN cache :
    Live(cache, k) => Has(staleCache, k) /\ staleCache[k] = cache[k].v

\* Two overlapping calls have settled, the first with a fetched value and the
\* second, after it, with that value served as stale and re-seeded
ReseededOverFetchSeen ==
  /\ Live(cache, focus) /\ ~cache[focus].fresh
  /\ \E c, d \in Calls :
       /\ c # d
       /\ call[c].res.kind = "value" /\ ~call[c].res.cached
       /\ call[d].res.kind = "value" /\ call[d].res.stale
       /\ call[d].res.data = call[c].res.data

\* C27: once a call for a key has completed with a successful fetch, the
\* secondary store holds the key for good (no expiry, no invalidation removes
\* it), and from then on no call for the key completes with the fetcher's
\* failure: each returns a value.
LastKnownGoodKept ==
  \A k \in CacheKeys :
    Has(staleCache, k) =>
      /\ Has(staleCache', k)
      /\ \A c \in Calls :
           (call[c].pc = "fetching" /\ call[c].key = k /\ call'[c].pc = "done")
             => call'[c].res.kind = "value"

FetchedIsBackedUp ==
  \A c \in Calls :
    (call[c].res.kind = "value" /\ ~call[c].res.cached)
      => Has(staleCache, call[c].key)

LastKnownGoodPermanent == []FetchedIsBackedUp /\ [][LastKnownGoodKept]_vars

\* A call has returned the last-known-good value after its fetcher failed;
\* the key has since been invalidated and another fetch is in flight, with
\* the last-known-good value still in place
StaleAfterInvalidateSeen ==
  /\ \E c \in Calls : call[c].res.kind = "value" /\ call[c].res.stale
  /\ \E c \in Calls : call[c].pc = "fetching"
  /\ ~Has(cache, focus)
  /\ Has(staleCache, focus)

----------------------------------------------------------------------------
(* Staleness in composed computations (checked under SpecSum) *)

\* the producer of t returns in this step, every sub-call having handed it a
\* value and at least one of them a stale one
ProducedFromStale(t) ==
  /\ Children(t) # {}
  /\ task[t].pc = "fetch" /\ task'[t].pc = "done"
  /\ \A u \in Children(t) : task[u].pc = "done" /\ task[u].res.kind = "value"
  /\ \E u \in Children(t) : task[u].res.stale

\* what a producer run on fresh values leaves behind
StoredAsFresh(t) ==
  /\ task'[t].res = MissResult(1)
  /\ Live(cache', Key(t))
  /\ cache'[Key(t)].left = cacheTTL(Key(t))
  /\ cache'[Key(t)].fresh
  /\ Has(staleCache', Key(t))
  /\ staleCache'[Key(t)] = cache'[Key(t)].v

----------------------------------------------------------------------------
(* Degraded aggregates in the cache (checked under SpecOverlap) *)

\* a result that shows its sub-computations failed: a ranking shorter than
\* the market list allows, an overview without a top market
Reduced(d) ==
  IF rq.op = "overview"
  THEN Len(mkts) > 0 /\ (d.topMarketByVolume = NoTop \/ d.topMarketByLiquidity = NoTop)
  ELSE Len(d) < Min(rq.limit, Len(Slice(FilterType(mkts, rq.type), RankCap)))

\* the producer returns although sub-computations of its last fan-out failed:
\* its result is stored in both stores, for the analytics TTL, and returned
DegradedStored ==
  (agg.pc = "fan" /\ agg'.pc = "done" /\ NumRejected(subs) > 0) =>
    /\ agg'.res.kind = "value" /\ ~agg'.res.cached /\ ~agg'.res.stale
    /\ Has(cache', AggKey)
    /\ cache'[AggKey] =
         [v |-> agg'.res.data, left |-> TTLAnalytics, fresh |-> TRUE]
    /\ Has(staleCache', AggKey)
    /\ staleCache'[AggKey] = agg'.res.data

\* a call that finds the entry live returns its value and starts no
\* per-market computation
ServedFromEntry ==
  /\ (agg.pc = "idle" /\ agg'.pc # "idle" /\ Live(cache, AggKey)) =>
        /\ agg'.pc = "done"
        /\ agg'.res = HitResult(cache[AggKey].v)
        /\ subs' = <<>> /\ runs' = runs
  /\ \A c \in Calls :
       (call[c].pc = "idle" /\ call'[c].pc # "idle" /\ Live(cache, AggKey)) =>
          /\ call'[c].pc = "done"
          /\ call'[c].res = HitResult(cache[AggKey].v)

ReducedEntry ==
  /\ Live(cache, AggKey)
  /\ cache[AggKey].fresh
  /\ Reduced(cache[AggKey].v)

\* the reduced entry is left as it is until its lifetime runs out
KeptUntilExpiry ==
  ReducedEntry => (cache' = cache \/ ~Has(cache', AggKey))

\* C29 as stated: a result computed while sub-computations failed is stored
\* like a complete one, and every call for the key until the analytics TTL
\* expires returns that same result without a per-market computation.
DegradedServedUntilExpiry ==
  [][DegradedStored /\ ServedFromEntry /\ KeptUntilExpiry]_vars

\* a call of the same key that was in flight completes in this step
InFlightCompletes ==
  \/ agg.pc \in {"markets", "fan"} /\ agg'.pc = "done"
  \/ \E c \in Calls : call[c].pc = "fetching" /\ call'[c].pc = "done"

\* ... or until a call that was already in flight completes, which replaces
\* the entry with what that call returns
KeptUntilExpiryOrOverlap ==
  ReducedEntry =>
    \/ cache' = cache
    \/ ~Has(cache', AggKey)
    \/ /\ InFlightCompletes
       /\ Live(cache', AggKey)
       /\ \/ agg'.pc = "done" /\ agg'.res.kind = "value"
               /\ agg'.res.data = cache'[AggKey].v
          \/ \E c \in Calls : call'[c].pc = "done" /\ call'[c].res.kind = "value"
               /\ call'[c].res.data = cache'[AggKey].v

\* C29: a result computed while sub-computations failed is stored in both
\* stores like a complete one; every call that finds the entry live returns
\* it without a per-market computation; the entry stays as it is until the
\* analytics TTL expires or a call that was in flight when it was stored
\* completes and overwrites it.
DegradedCachedUnlessOverlap ==
  [][DegradedStored /\ ServedFromEntry /\ KeptUntilExpiryOrOverlap]_vars

\* A ranking with a market missing has been served from the cache to a later
\* call
ReducedHitSeen ==
  /\ rq.op = "rankings"
  /\ ReducedEntry
  /\ agg.pc = "done" /\ agg.res.kind = "value" /\ agg.res.cached
  /\ agg.res.data = cache[AggKey].v

----------------------------------------------------------------------------
(* Properties of the processed order book (checked under SpecBook) *)

\* the two sides of the processed book with the raw levels they come from
Sides ==
  { [levels |-> book[1].bids, rawLevels |-> raw[1].buys,
     depthTotal |-> book[1].metrics.bidDepthTotal],
    [levels |-> book[1].asks, rawLevels |-> raw[1].sells,
     depthTotal |-> book[1].metrics.askDepthTotal] }

\* the returned levels are the first min(depth, available) raw levels, in
\* the order they came in
FirstLevelsInOrder(sd) ==
  /\ Len(sd.levels) = Min(raw[1].depth, Len(sd.rawLevels))
  /\ \A i \in 1..Len(sd.levels) :
       /\ sd.levels[i].price = sd.rawLevels[i].price * (100000000 \div PriceUnit)
       /\ sd.levels[i].quantity = toFixedSafe6(sd.rawLevels[i].quantity)

TotalNonDecreasing(sd) ==
  \A i \in 1..Len(sd.levels) - 1 : sd.levels[i].total <= sd.levels[i + 1].total

\* the side's depth total is the last level's total, or 0 for an empty side
DepthTotalIsLastTotal(sd) ==
  sd.depthTotal = IF Len(sd.levels) = 0 THEN 0
                  ELSE sd.levels[Len(sd.levels)].total

\* C21 as stated: each returned level's total is the sum of the returned
\* quantities of that level and of all the levels before it, totals never
\* decrease, the levels are the first min(depth, available) raw levels in
\* order, and a side's depth total is its last total, the sum of the side's
\* returned quantities (0 for an empty side)
CumulativeOfReturned ==
  book # <<>> =>
    \A sd \in Sides :
      /\ FirstLevelsInOrder(sd)
      /\ TotalNonDecreasing(sd)
      /\ DepthTotalIsLastTotal(sd)
      /\ \A i \in 1..Len(sd.levels) :
           sd.levels[i].total =
             SumSeq([j \in 1..i |-> sd.levels[j].quantity])
      /\ sd.depthTotal =
           SumSeq([j \in 1..Len(sd.levels) |-> sd.levels[j].quantity])

\* C21 (amended): the same, where each total is the sum of the converted
\* quantities of that level and of all the levels before it, rounded to six
\* decimals after the summing, and a side's depth total is that rounded sum
\* over all the returned levels (0 for an empty side)
CumulativeDepth ==
  book # <<>> =>
    \A sd \in Sides :
      /\ FirstLevelsInOrder(sd)
      /\ TotalNonDecreasing(sd)
      /\ DepthTotalIsLastTotal(sd)
      /\ \A i \in 1..Len(sd.levels) :
           sd.levels[i].total =
             toFixedSafe6(SumSeq([j \in 1..i |-> sd.rawLevels[j].quantity]))
      /\ sd.depthTotal =
           toFixedSafe6(SumSeq([j \in 1..Len(sd.levels) |->
                                  sd.rawLevels[j].quantity]))

\* A book has been cut to fewer bid levels than the indexer returned, and the
\* last bid total is not what the returned bid quantities add up to
CutAndRoundedSeen ==
  /\ book # <<>>
  /\ Len(book[1].bids) = 2
  /\ Len(raw[1].buys) = 3
  /\ book[1].bids[2].total > book[1].bids[1].total
  /\ book[1].bids[2].total # book[1].bids[1].quantity + book[1].bids[2].quantity

----------------------------------------------------------------------------
(* Properties of the metrics of degenerate books (checked under SpecBook) *)

\* the best prices are the first level's price of their side, or 0 for an
\* empty side, and the mid price and the absolute spread are 0 unless both
\* are positive
BestPrices ==
  LET m == book[1].metrics IN
  /\ m.bestBid = IF Len(book[1].bids) = 0 THEN 0 ELSE book[1].bids[1].price
  /\ m.bestAsk = IF Len(book[1].asks) = 0 THEN 0 ELSE book[1].asks[1].price
  /\ ~(m.bestBid > 0 /\ m.bestAsk > 0) => m.midPrice = 0 /\ m.absoluteSpread = 0

\* the two best prices in thousandths, the unit the raw levels are in
BestInUnits ==
  [bid |-> book[1].metrics.bestBid \div (100000000 \div PriceUnit),
   ask |-> book[1].metrics.bestAsk \div (100000000 \div PriceUnit)]

\* C22 as stated: the best prices are the first level's price or 0, mid price
\* and absolute spread are 0 unless both best prices are positive, and
\* relativeSpreadBps is 0 when a best price is not positive and otherwise
\* equals (bestAsk - bestBid) / ((bestBid + bestAsk) / 2) * 10000
DegenerateBooksExact ==
  book # <<>> =>
    LET m == book[1].metrics
        p == BestInUnits
    IN  /\ BestPrices
        /\ (m.bestBid <= 0 \/ m.bestAsk <= 0) => m.relativeSpreadBps = 0
        /\ (m.bestBid > 0 /\ m.bestAsk > 0) =>
             m.relativeSpreadBps * (p.bid + p.ask) = 100 * 20000 * (p.ask - p.bid)

\* C22 (amended): the same, where relativeSpreadBps for two positive best
\* prices is that quotient rounded to two decimals
DegenerateBooks ==
  book # <<>> =>
    LET m == book[1].metrics
        p == BestInUnits
    IN  /\ BestPrices
        /\ (m.bestBid <= 0 \/ m.bestAsk <= 0) => m.relativeSpreadBps = 0
        /\ (m.bestBid > 0 /\ m.bestAsk > 0) =>
             2 * Abs(m.relativeSpreadBps * (p.bid + p.ask)
                       - 100 * 20000 * (p.ask - p.bid)) <= p.bid + p.ask

\* A book with bids and no ask has been reduced to metrics
OneSidedBookSeen ==
  /\ book # <<>>
  /\ Len(book[1].bids) > 0
  /\ Len(book[1].asks) = 0
  /\ book[1].metrics.bestBid > 0
  /\ book[1].metrics.bestAsk = 0
  /\ book[1].metrics.relativeSpreadBps = 0

----------------------------------------------------------------------------
(* Properties of the trade statistics (checked under SpecTrades) *)

\* the fields of a TradeStats that are numbers
NumericFields ==
  {"totalTrades", "totalVolume", "totalNotional", "avgPrice", "avgTradeSize",
   "highPrice", "lowPrice", "priceChange", "priceChangePercent", "buyCount",
   "sellCount", "buySellRatio", "volatility"}

\* what the indexer returned for the window
RawWindow == IF raw[1].hasTrades THEN raw[1].trades ELSE <<>>

\* C23: when the upstream returns no trade, the statistics have period
\* 'no_data', an empty trade list and 0 in every numeric field; they are the
\* constant record, not the result of the window's divisions
EmptyTradeWindow ==
  (stats # <<>> /\ RawWindow = <<>>) =>
    /\ stats[1].period = <<"no_data">>
    /\ stats[1].trades = <<>>
    /\ \A f \in NumericFields : stats[1][f] = 0
    /\ stats[1] = emptyStats

\* An answer without any trade has been reduced to statistics
EmptyWindowSeen ==
  /\ stats # <<>>
  /\ ~raw[1].hasTrades
  /\ stats[1].period = <<"no_data">>

\* C24: a normalized trade is tagged 'buy' exactly when the upstream
\* direction is 'buy' and 'sell' for every other value, a missing one
\* included; so buyCount + sellCount = totalTrades = the number of trades
TradeSideMapping ==
  stats # <<>> =>
    /\ Len(stats[1].trades) = Len(RawWindow)
    /\ \A i \in 1..Len(RawWindow) :
         /\ stats[1].trades[i].side \in {"buy", "sell"}
         /\ stats[1].trades[i].side = "buy" <=> RawWindow[i].tradeDirection = "buy"
    /\ stats[1].buyCount =
         Cardinality({i \in 1..Len(RawWindow) : RawWindow[i].tradeDirection = "buy"})
    /\ stats[1].buyCount + stats[1].sellCount = stats[1].totalTrades
    /\ stats[1].totalTrades = Len(RawWindow)

\* A window with a buy, a trade of another direction and a trade without
\* direction has been counted
MixedDirectionsSeen ==
  /\ stats # <<>>
  /\ Len(RawWindow) = 3
  /\ RawWindow[1].tradeDirection = "buy"
  /\ RawWindow[2].tradeDirection = "long"
  /\ RawWindow[3].tradeDirection = Undefined
  /\ stats[1].buyCount = 1
  /\ stats[1].sellCount = 2

----------------------------------------------------------------------------
(* Properties of the request layer (checked under SpecQuery) *)

\* the string writes an integer: an optional minus sign, then digits only
WritesInteger(str) ==
  LET digits == IF str # <<>> /\ Head(str) = "-" THEN Tail(str) ELSE str
  IN  digits # <<>> /\ \A i \in 1..Len(digits) : digits[i] \in Digits

\* the integer such a string writes
IntegerOf(str) ==
  IF Head(str) = "-" THEN -NumberOf(Tail(str)) ELSE NumberOf(str)

\* every value a handler passes on to its service is within the handler's
\* bounds: depth in [1,50], trade limit in [1,100], rankings limit in [1,50]
PassedInBounds ==
  (param # <<>> /\ param[1].kind = "value") =>
    LET h == raw[1].handler
        lo == 1
        hi == IF h = "getMarketTrades" THEN 100 ELSE 50
    IN  lo <= param[1].value /\ param[1].value <= hi

\* C25 as stated: parseIntParam returns the default for an undefined or empty
\* input, the integer the input writes when it is within [min, max], and
\* throws for every other input, one that does not write an integer or one
\* out of range; so what is passed on is within the handler's bounds
BoundedIntegerParameters ==
  param # <<>> =>
    LET value == raw[1].value
        options == Options(raw[1].handler)
    IN  /\ PassedInBounds
        /\ IF value = Absent \/ value = <<>>
             THEN param[1] = Returned(options.default)
           ELSE IF /\ WritesInteger(value)
                   /\ options.min <= IntegerOf(value)
                   /\ IntegerOf(value) <= options.max
             THEN param[1] = Returned(IntegerOf(value))
           ELSE param[1].kind = "error"

----------------------------------------------------------------------------
(* Properties of the spread ranking of degenerate books (checked under      *)
(* SpecRank)                                                                *)

\* the book of a fulfilled sub-computation lacks a side
LacksASide(r) == r.bidLevels = 0 \/ r.askLevels = 0

\* where market id stands in a ranking, 0 when it is not in it
PositionOf(data, id) ==
  IF EntriesOf(data, id) = {} THEN 0 ELSE CHOOSE j \in EntriesOf(data, id) : TRUE

\* the ranking getRankings produces at its join, for the metric 'spread'
DegenerateFirst ==
  (rq.metric = "spread" /\ agg.pc = "fan" /\ agg'.pc = "done") =>
    LET rs == Fulfilled(subs, 1)
        data == agg'.res.data
    IN  /\ \A k \in 1..Len(rs) :
             LacksASide(rs[k].r) =>
               /\ rs[k].r.relativeSpreadBps = 0
               /\ \A j \in EntriesOf(data, rs[k].market.marketId) : data[j].value = 0
               /\ \A l \in 1..Len(rs) :
                    (rs[l].r.relativeSpreadBps > 0
                       /\ PositionOf(data, rs[l].market.marketId) > 0) =>
                      /\ PositionOf(data, rs[k].market.marketId) > 0
                      /\ PositionOf(data, rs[k].market.marketId)
                           < PositionOf(data, rs[l].market.marketId)
        /\ \A i, j \in 1..Len(data) :
             (i < j /\ data[i].value = data[j].value) =>
               \E k, l \in 1..Len(agg.markets) :
                  /\ k < l
                  /\ agg.markets[k].marketId = data[i].marketId
                  /\ agg.markets[l].marketId = data[j].marketId

\* C30: in getRankings by spread, a market whose order book has no bid or no
\* ask has value 0 and stands ahead of every market with a positive spread,
\* and entries of equal value stand in the order of the market list
SpreadRankingOfDegenerateBooks == [][DegenerateFirst]_vars

\* Three markets were ranked by spread: the first with a two-sided book, the
\* second and the third with a one-sided book, which came out first and
\* second in that order with value 0
DegenerateRankedFirstSeen ==
  /\ rq.op = "rankings" /\ rq.metric = "spread" /\ agg.pc = "done" /\ agg.ran
  /\ Len(agg.markets) = 3 /\ agg.rejected = 0
  /\ agg.res.kind = "value"
  /\ Len(agg.res.data) = 3
  /\ [i \in 1..3 |-> agg.res.data[i].marketId] = <<2, 3, 1>>
  /\ agg.res.data[1].value = 0
  /\ agg.res.data[2].value = 0
  /\ agg.res.data[3].value > 0

====
